---- MODULE Spec2Model ----
(***************************************************************************)
(* A model of the selector subsystem of lightningcss (src/src/selector.rs) *)
(* and of the warnings sink of its command line driver (src/src/main.rs).  *)
(*                                                                         *)
(* A selector list is a sequence of selectors; a selector is the sequence  *)
(* of its components in match order: the compounds right to left, the      *)
(* simple selectors of one compound in the order they were written, a      *)
(* Combinator component between two compounds.  A component is a record    *)
(* with the same six fields for every variant.  A vendor prefix is the set *)
(* of its bits; identifiers and texts are sequences of one-character       *)
(* strings.                                                                *)
(***************************************************************************)
EXTENDS Integers, Sequences, FiniteSets, TLC

VARIABLES
  selectors,        \* the selector list an operation works on
  other,            \* the second list of is_equivalent
  targets,          \* Option<Browsers>: the browser targets
  unused_symbols,   \* the set of unused class and id names
  parent_is_unused, \* the flag of is_unused
  input,            \* the text handed to the parser
  css,              \* the text the printer has written
  first_css,        \* the text of the first serialization of a round trip
  first_tree,       \* the tree of the first parse of a round trip
  minify,           \* the printer's minify option
  vendor_prefix,    \* the printer's vendor prefix override
  style_context,    \* the printer's StyleContext: the parent lists, innermost first
  ret,              \* the value the last operation returned
  warnings,         \* ParserOptions::warnings: Option of the list of warnings
  css_module,       \* the printer's css_module: Option of the CSS modules state
  error_recovery,   \* the --error-recovery flag of the command line
  css_modules,      \* ParserOptions::css_modules: whether it is Some
  threads,          \* the position and the pending warnings of each parser thread
  lock,             \* the RwLock of the sink: the threads that hold it for writing
  holders,          \* the strong count of the Arc around the sink
  drained,          \* the warnings the command line has printed
  op                \* the last operation that ran

vars == <<selectors, other, targets, unused_symbols, parent_is_unused,
          input, css, first_css, first_tree, minify, vendor_prefix,
          style_context, ret, warnings, css_module, error_recovery, css_modules,
          threads,
          lock, holders, drained, op>>

\* The state of the command line around the sink.
sink_vars == <<error_recovery, css_modules, threads, lock, holders, drained>>

----------------------------------------------------------------------------
(* Vendor prefixes: src/vendor_prefix.rs, a bit set.                       *)

VendorPrefixBits == {"None", "WebKit", "Moz", "Ms", "O"}
VP_empty == {}
VP_None == {"None"}
VP_WebKit == {"WebKit"}
VP_Moz == {"Moz"}
VP_Ms == {"Ms"}
VP_O == {"O"}

----------------------------------------------------------------------------
(* Components.                                                             *)

Comp(kind) ==
  [kind |-> kind, sub |-> "", name |-> <<>>, vp |-> {}, args |-> <<>>, list |-> <<>>]

Class(n) == [Comp("Class") EXCEPT !.name = n]
ID(n) == [Comp("ID") EXCEPT !.name = n]
LocalName(n) == [Comp("LocalName") EXCEPT !.name = n]
ExplicitUniversalType == Comp("ExplicitUniversalType")
ExplicitAnyNamespace == Comp("ExplicitAnyNamespace")
ExplicitNoNamespace == Comp("ExplicitNoNamespace")
DefaultNamespace(url) == [Comp("DefaultNamespace") EXCEPT !.name = url]
Namespace(prefix) == [Comp("Namespace") EXCEPT !.name = prefix]
Nesting == Comp("Nesting")
Scope == Comp("Scope")
Root == Comp("Root")
FirstChild == Comp("FirstChild")
Combinator(c) == [Comp("Combinator") EXCEPT !.sub = c]
Is(l) == [Comp("Is") EXCEPT !.list = l]
Where(l) == [Comp("Where") EXCEPT !.list = l]
Negation(l) == [Comp("Negation") EXCEPT !.list = l]
Has(l) == [Comp("Has") EXCEPT !.list = l]
\* An attribute selector with a namespace: without args when its operation
\* is Exists, with the operator and the value as args and the case
\* sensitivity as sub when it is WithValue.
AttributeOtherExists == Comp("AttributeOther")
AttributeOther(operator, value, case_sensitivity) ==
  [Comp("AttributeOther") EXCEPT !.args = <<operator, value>>, !.sub = case_sensitivity]

\* An attribute selector without a namespace: its operator and its value
\* are the two args, its case sensitivity the sub.
AttributeInNoNamespace(local_name, operator, value, case_sensitivity) ==
  [Comp("AttributeInNoNamespace") EXCEPT !.name = local_name,
                                         !.args = <<operator, value>>,
                                         !.sub = case_sensitivity]
ComponentAny(p, l) == [Comp("Any") EXCEPT !.vp = p, !.list = l]
Host(l) == [Comp("Host") EXCEPT !.list = l]
Slotted(l) == [Comp("Slotted") EXCEPT !.list = l]
Part(ns) == [Comp("Part") EXCEPT !.args = ns]

\* Component::NonTSPseudoClass(PseudoClass::...)
PseudoClass(variant) == [Comp("NonTSPseudoClass") EXCEPT !.sub = variant]
PrefixedPseudoClass(variant, p) == [PseudoClass(variant) EXCEPT !.vp = p]
Lang(languages) == [PseudoClass("Lang") EXCEPT !.args = languages]
Dir(direction) == [PseudoClass("Dir") EXCEPT !.sub = "Dir", !.name = direction]
CustomPseudoClass(n) == [PseudoClass("Custom") EXCEPT !.name = n]
CustomFunctionPseudoClass(n, arguments) ==
  [PseudoClass("CustomFunction") EXCEPT !.name = n, !.args = arguments]
Local(sel) == [PseudoClass("Local") EXCEPT !.list = <<sel>>]
Global(sel) == [PseudoClass("Global") EXCEPT !.list = <<sel>>]

\* Component::PseudoElement(PseudoElement::...)
PseudoElement(variant) == [Comp("PseudoElement") EXCEPT !.sub = variant]
PrefixedPseudoElement(variant, p) == [PseudoElement(variant) EXCEPT !.vp = p]
CustomPseudoElement(n) == [PseudoElement("Custom") EXCEPT !.name = n]
CustomFunctionPseudoElement(n, arguments) ==
  [PseudoElement("CustomFunction") EXCEPT !.name = n, !.args = arguments]
CueFunction(sel) == [PseudoElement("CueFunction") EXCEPT !.list = <<sel>>]
CueRegionFunction(sel) == [PseudoElement("CueRegionFunction") EXCEPT !.list = <<sel>>]

PrefixablePseudoClasses ==
  {"Fullscreen", "AnyLink", "ReadOnly", "ReadWrite", "PlaceholderShown", "Autofill"}
PrefixablePseudoElements ==
  {"Selection", "Placeholder", "Backdrop", "FileSelectorButton"}

Ltr == <<"l", "t", "r">>
Rtl == <<"r", "t", "l">>

is_combinator(c) == c.kind = "Combinator"

\* Selector::iter_raw_match_order: every component, combinators included.
iter_raw_match_order(selector) == selector

RECURSIVE FirstCombinator(_, _)
FirstCombinator(selector, i) ==
  IF i > Len(selector) THEN i
  ELSE IF is_combinator(selector[i]) THEN i
  ELSE FirstCombinator(selector, i + 1)

\* Selector::iter: the components of the rightmost compound; the iterator
\* yields None at the first combinator.
iter(selector) == SubSeq(selector, 1, FirstCombinator(selector, 1) - 1)

Min(a, b) == IF a < b THEN a ELSE b

Range(s) == {s[i] : i \in 1..Len(s)}

----------------------------------------------------------------------------
(* The compatibility oracle (spec 4.3).  The browser data is not part of   *)
(* the selector subsystem: a target set is the set of compat features it   *)
(* supports and, for each prefix feature, the prefixes it needs.           *)

PrefixFeatures ==
  {"AnyPseudo", "PseudoClassFullscreen", "PseudoClassAnyLink", "PseudoClassReadOnly",
   "PseudoClassReadWrite", "PseudoClassPlaceholderShown", "PseudoClassAutofill",
   "PseudoElementSelection", "PseudoElementPlaceholder", "PseudoElementBackdrop",
   "PseudoElementFileSelectorButton"}

\* Option<Browsers>::Some(..)
Browsers(supported, prefixes) ==
  [some |-> TRUE, supported |-> supported, prefixes |-> prefixes]

\* Option<Browsers>::None
NoTargets ==
  [some |-> FALSE, supported |-> {}, prefixes |-> [f \in PrefixFeatures |-> {}]]

\* compat::Feature::is_compatible(browsers)
FeatureIsCompatible(feature, browsers) == feature \in browsers.supported

\* prefixes::Feature::prefixes_for(browsers)
prefixes_for(feature, browsers) == browsers.prefixes[feature]

----------------------------------------------------------------------------
(* PseudoClass and PseudoElement helpers.                                  *)

\* PseudoClass::is_equivalent
PseudoClassIsEquivalent(a, b) ==
  IF a.sub \in PrefixablePseudoClasses /\ a.sub = b.sub THEN TRUE ELSE a = b

\* PseudoElement::is_equivalent
PseudoElementIsEquivalent(a, b) ==
  IF a.sub \in PrefixablePseudoElements /\ a.sub = b.sub THEN TRUE ELSE a = b

\* PseudoClass::get_prefix
PseudoClassGetPrefix(pc) ==
  IF pc.sub \in PrefixablePseudoClasses THEN pc.vp ELSE VP_empty

\* PseudoElement::get_prefix
PseudoElementGetPrefix(pe) ==
  IF pe.sub \in PrefixablePseudoElements THEN pe.vp ELSE VP_empty

\* get_necessary_prefixes that does not look at the stored prefix.
PseudoClassGetNecessaryPrefixes_AnyStoredPrefix(pc, browsers) ==
  IF pc.sub \in PrefixablePseudoClasses
  THEN prefixes_for("PseudoClass" \o pc.sub, browsers)
  ELSE VP_empty

\* PseudoClass::get_necessary_prefixes
PseudoClassGetNecessaryPrefixes(pc, browsers) ==
  IF pc.sub \in PrefixablePseudoClasses /\ pc.vp = VP_None
  THEN prefixes_for("PseudoClass" \o pc.sub, browsers)
  ELSE VP_empty

\* PseudoElement::get_necessary_prefixes
PseudoElementGetNecessaryPrefixes(pe, browsers) ==
  IF pe.sub \in PrefixablePseudoElements /\ pe.vp = VP_None
  THEN prefixes_for("PseudoElement" \o pe.sub, browsers)
  ELSE VP_empty

----------------------------------------------------------------------------
(* is_compatible                                                           *)

\* The feature the match of is_compatible gives a pseudo-class: a feature
\* name, or "return false".
PseudoClassFeature(pc) ==
  CASE pc.sub \in {"Link", "Visited", "Active", "Hover", "Focus", "Lang"} -> "CssSel2"
    [] pc.sub \in {"Checked", "Disabled", "Enabled", "Target"} -> "CssSel3"
    [] pc.sub = "AnyLink" /\ pc.vp = VP_None -> "CssAnyLink"
    [] pc.sub = "Indeterminate" -> "CssIndeterminatePseudo"
    [] pc.sub = "Fullscreen" /\ pc.vp = VP_None -> "Fullscreen"
    [] pc.sub = "FocusVisible" -> "CssFocusVisible"
    [] pc.sub = "FocusWithin" -> "CssFocusWithin"
    [] pc.sub = "Default" -> "CssDefaultPseudo"
    [] pc.sub = "Dir" -> "CssDirPseudo"
    [] pc.sub = "Optional" -> "CssOptionalPseudo"
    [] pc.sub = "PlaceholderShown" /\ pc.vp = VP_None -> "CssPlaceholderShown"
    [] pc.sub \in {"ReadOnly", "ReadWrite"} /\ pc.vp = VP_None -> "CssReadOnlyWrite"
    [] pc.sub \in {"Valid", "Invalid", "Required"} -> "FormValidation"
    [] pc.sub \in {"InRange", "OutOfRange"} -> "CssInOutOfRange"
    [] pc.sub = "Autofill" /\ pc.vp = VP_None -> "CssAutofill"
    [] OTHER -> "return false"

\* The feature the match of is_compatible gives a pseudo-element.
PseudoElementFeature(pe) ==
  CASE pe.sub \in {"After", "Before"} -> "CssGencontent"
    [] pe.sub = "FirstLine" -> "CssFirstLine"
    [] pe.sub = "FirstLetter" -> "CssFirstLetter"
    [] pe.sub = "Selection" /\ pe.vp = VP_None -> "CssSelection"
    [] pe.sub = "Placeholder" /\ pe.vp = VP_None -> "CssPlaceholder"
    [] pe.sub = "Marker" -> "CssMarkerPseudo"
    [] pe.sub = "Backdrop" /\ pe.vp = VP_None -> "Dialog"
    [] pe.sub = "Cue" -> "Cue"
    [] pe.sub = "CueFunction" -> "CueFunction"
    [] OTHER -> "return false"

\* The match of is_compatible on one component: "continue", "return false",
\* or the compat feature the component needs.
ComponentFeature(component) ==
  CASE component.kind \in {"ID", "Class", "LocalName"} -> "continue"
    [] component.kind \in {"ExplicitAnyNamespace", "ExplicitNoNamespace",
                           "DefaultNamespace", "Namespace"} -> "CssNamespaces"
    [] component.kind = "ExplicitUniversalType" -> "CssSel2"
    [] component.kind = "AttributeInNoNamespaceExists" -> "CssSel2"
    [] component.kind = "AttributeInNoNamespace" ->
         IF component.sub # "CaseSensitive" THEN "CssCaseInsensitive"
         ELSE IF component.args[1] \in {"Equal", "Includes", "DashMatch"} THEN "CssSel2"
         ELSE "CssSel3"
    [] component.kind = "AttributeOther" ->
         IF component.args = <<>> THEN "CssSel2"
         ELSE IF component.sub # "CaseSensitive" THEN "CssCaseInsensitive"
         ELSE IF component.args[1] \in {"Equal", "Includes", "DashMatch"} THEN "CssSel2"
         ELSE "CssSel3"
    [] component.kind = "FirstChild" -> "CssSel2"
    [] component.kind \in {"Empty", "FirstOfType", "LastChild", "LastOfType", "Negation",
                           "NthChild", "NthLastChild", "NthCol", "NthLastCol",
                           "NthLastOfType", "NthOfType", "OnlyChild", "OnlyOfType",
                           "Root"} -> "CssSel3"
    [] component.kind \in {"Is", "Nesting"} -> "CssMatchesPseudo"
    [] component.kind = "Any" -> "AnyPseudo"
    [] component.kind = "Has" -> "CssHas"
    [] component.kind \in {"Scope", "Host", "Slotted"} -> "Shadowdomv1"
    [] component.kind \in {"Part", "Where"} -> "return false"
    [] component.kind = "NonTSPseudoClass" -> PseudoClassFeature(component)
    [] component.kind = "PseudoElement" -> PseudoElementFeature(component)
    [] component.kind = "Combinator" ->
         IF component.sub \in {"Child", "NextSibling"} THEN "CssSel2"
         ELSE IF component.sub = "LaterSibling" THEN "CssSel3"
         ELSE "continue"

\* One turn of the inner loop of is_compatible: TRUE when the loop goes on to
\* the next component, FALSE when it returns false.
ComponentPasses(component, t) ==
  LET feature == ComponentFeature(component) IN
    IF feature = "continue" THEN TRUE
    ELSE IF feature = "return false" THEN FALSE
    ELSE IF t.some THEN FeatureIsCompatible(feature, t)
    ELSE FALSE

is_compatible(sels, t) ==
  \A i \in 1..Len(sels) :
    LET it == iter(sels[i]) IN
      \A j \in 1..Len(it) : ComponentPasses(it[j], t)

----------------------------------------------------------------------------
(* is_equivalent                                                           *)

\* The match inside the zip loop of is_equivalent.
ComponentIsEquivalent(a, b) ==
  IF a.kind = "NonTSPseudoClass" /\ b.kind = "NonTSPseudoClass"
    THEN PseudoClassIsEquivalent(a, b)
  ELSE IF a.kind = "PseudoElement" /\ b.kind = "PseudoElement"
    THEN PseudoElementIsEquivalent(a, b)
  ELSE a = b

\* is_equivalent with the length of a whole selector compared with the length
\* of the other's rightmost compound.
is_equivalent_CompoundLen(sels, others) ==
  IF Len(sels) # Len(others) THEN FALSE
  ELSE \A i \in 1..Len(sels) :
         LET ia == iter(sels[i])
             ib == iter(others[i])
         IN  /\ Len(sels[i]) = Len(ib)
             /\ \A j \in 1..Min(Len(ia), Len(ib)) : ComponentIsEquivalent(ia[j], ib[j])

is_equivalent(sels, others) ==
  IF Len(sels) # Len(others) THEN FALSE
  ELSE \A i \in 1..Len(sels) :
         LET a == sels[i]
             b == others[i]
             ia == iter(a)
             ib == iter(b)
         IN  /\ Len(a) = Len(b)
             /\ \A j \in 1..Min(Len(ia), Len(ib)) : ComponentIsEquivalent(ia[j], ib[j])

----------------------------------------------------------------------------
(* get_prefix                                                              *)

\* The match of get_prefix with the arm of the list-bearing composites and of
\* :lang and :dir left out.
ComponentPrefix_NoComposites(component) ==
  CASE component.kind = "Any" -> component.vp
    [] component.kind = "NonTSPseudoClass" -> PseudoClassGetPrefix(component)
    [] component.kind = "PseudoElement" -> PseudoElementGetPrefix(component)
    [] OTHER -> VP_empty

\* The match of get_prefix on one component.
ComponentPrefix(component) ==
  CASE component.kind = "NonTSPseudoClass" /\ component.sub \in {"Lang", "Dir"} -> VP_None
    [] component.kind \in {"Is", "Where", "Has", "Negation"} -> VP_None
    [] component.kind = "Any" -> component.vp
    [] component.kind = "NonTSPseudoClass" -> PseudoClassGetPrefix(component)
    [] component.kind = "PseudoElement" -> PseudoElementGetPrefix(component)
    [] OTHER -> VP_empty

\* The loops of get_prefix without the early return: a second, different
\* prefix replaces the first.
RECURSIVE GetPrefixLoop_LastWins(_, _, _, _)
GetPrefixLoop_LastWins(sels, i, j, prefix) ==
  IF i > Len(sels) THEN prefix
  ELSE IF j > Len(sels[i]) THEN GetPrefixLoop_LastWins(sels, i + 1, 1, prefix)
  ELSE LET p == ComponentPrefix(sels[i][j]) IN
    GetPrefixLoop_LastWins(sels, i, j + 1, IF p # VP_empty THEN p ELSE prefix)

\* The two loops of get_prefix from component j of selector i on, with the
\* prefix seen so far.
RECURSIVE GetPrefixLoop(_, _, _, _)
GetPrefixLoop(sels, i, j, prefix) ==
  IF i > Len(sels) THEN prefix
  ELSE IF j > Len(iter_raw_match_order(sels[i])) THEN GetPrefixLoop(sels, i + 1, 1, prefix)
  ELSE LET p == ComponentPrefix(iter_raw_match_order(sels[i])[j]) IN
    IF p # VP_empty
    THEN IF prefix = VP_empty \/ prefix = p
         THEN GetPrefixLoop(sels, i, j + 1, p)
         ELSE VP_empty
    ELSE GetPrefixLoop(sels, i, j + 1, prefix)

get_prefix(sels) == GetPrefixLoop(sels, 1, 1, VP_empty)

----------------------------------------------------------------------------
(* is_unused                                                               *)

RECURSIVE is_unused(_, _, _)

\* The closure of is_unused on one selector, from component j on.
RECURSIVE SelectorIsUnused(_, _, _, _)
SelectorIsUnused(selector, j, symbols, parent_unused) ==
  IF j > Len(iter_raw_match_order(selector)) THEN FALSE
  ELSE LET component == iter_raw_match_order(selector)[j] IN
    IF component.kind \in {"Class", "ID"} /\ component.name \in symbols THEN TRUE
    ELSE IF /\ component.kind \in {"Is", "Where", "Any"}
            /\ is_unused(component.list, symbols, parent_unused) THEN TRUE
    ELSE IF component.kind = "Nesting" /\ parent_unused THEN TRUE
    ELSE SelectorIsUnused(selector, j + 1, symbols, parent_unused)

\* is_unused without its early return on an empty symbol set.
is_unused_NoEmptyCheck(sels, symbols, parent_unused) ==
  \A i \in 1..Len(sels) : SelectorIsUnused(sels[i], 1, symbols, parent_unused)

is_unused(sels, symbols, parent_unused) ==
  IF symbols = {} THEN FALSE
  ELSE \A i \in 1..Len(sels) : SelectorIsUnused(sels[i], 1, symbols, parent_unused)

----------------------------------------------------------------------------
(* downlevel_selectors                                                     *)

RTL_LANGS ==
  <<<<"a", "e">>, <<"a", "r">>, <<"a", "r", "c">>, <<"b", "c", "c">>,
    <<"b", "q", "i">>, <<"c", "k", "b">>, <<"d", "v">>, <<"f", "a">>,
    <<"g", "l", "k">>, <<"h", "e">>, <<"k", "u">>, <<"m", "z", "n">>,
    <<"n", "q", "o">>, <<"p", "n", "b">>, <<"p", "s">>, <<"s", "d">>,
    <<"u", "g">>, <<"u", "r">>, <<"y", "i">>>>

IsTreeCombinator(c) ==
  c.kind = "Combinator" /\ c.sub \in {"Child", "Descendant", "NextSibling", "LaterSibling"}

\* has_combinator that finds no combinator.
has_combinator_Never(selector) == FALSE

\* Selector::has_combinator
has_combinator(selector) ==
  \E i \in 1..Len(selector) : IsTreeCombinator(selector[i])

\* lang_list_to_selectors that reverses the languages.
lang_list_to_selectors_Reversed(langs) ==
  [i \in 1..Len(langs) |-> <<Lang(<<langs[Len(langs) + 1 - i]>>)>>]

lang_list_to_selectors(langs) ==
  [i \in 1..Len(langs) |-> <<Lang(<<langs[i]>>)>>]

\* downlevel_dir that wraps the languages of :dir(ltr) in :is.
downlevel_dir_LtrAsIs(dir, t) ==
  IF FeatureIsCompatible("LangList", t)
  THEN Lang(RTL_LANGS)
  ELSE Is(lang_list_to_selectors(RTL_LANGS))

\* downlevel_dir that answers the :dir() it was given.
downlevel_dir_Same(dir, t) == Dir(dir)

downlevel_dir(dir, t) ==
  LET langs == RTL_LANGS IN
    IF FeatureIsCompatible("LangList", t)
    THEN LET c == Lang(langs) IN
           IF dir = Ltr THEN Negation(<<<<c>>>>) ELSE c
    ELSE IF dir = Ltr THEN Negation(lang_list_to_selectors(langs))
         ELSE Is(lang_list_to_selectors(langs))

\* Both return the rewritten value together with the necessary prefixes.
RECURSIVE downlevel_selectors(_, _)
RECURSIVE downlevel_component(_, _)

\* downlevel_component that leaves the lists of :where, :-*-any, :not and :has
\* alone.
downlevel_component_Shallow(component, t) ==
  IF component.kind = "NonTSPseudoClass" /\ component.sub = "Dir"
       /\ ~FeatureIsCompatible("CssDirPseudo", t)
  THEN downlevel_component(downlevel_dir(component.name, t), t)
  ELSE IF component.kind = "NonTSPseudoClass" /\ component.sub = "Lang"
            /\ Len(component.args) > 1 /\ ~FeatureIsCompatible("LangList", t)
  THEN downlevel_component(Is(lang_list_to_selectors(component.args)), t)
  ELSE IF component.kind = "Is"
  THEN LET r == downlevel_selectors(component.list, t) IN
         [component |-> [component EXCEPT !.list = r.selectors],
          prefixes |-> r.necessary_prefixes]
  ELSE [component |-> component, prefixes |-> VP_empty]

\* downlevel_component that does not downlevel what it has put in the place
\* of a :dir() or of a :lang() of several languages.
downlevel_component_Once(component, t) ==
  IF component.kind = "NonTSPseudoClass" THEN
    IF component.sub = "Dir" THEN
      IF ~FeatureIsCompatible("CssDirPseudo", t)
      THEN [component |-> downlevel_dir(component.name, t), prefixes |-> VP_empty]
      ELSE [component |-> component, prefixes |-> VP_empty]
    ELSE IF component.sub = "Lang" THEN
      IF Len(component.args) > 1 /\ ~FeatureIsCompatible("LangList", t)
      THEN [component |-> Is(lang_list_to_selectors(component.args)),
            prefixes |-> VP_empty]
      ELSE [component |-> component, prefixes |-> VP_empty]
    ELSE [component |-> component,
          prefixes |-> PseudoClassGetNecessaryPrefixes(component, t)]
  ELSE IF component.kind = "PseudoElement" THEN
    [component |-> component,
     prefixes |-> PseudoElementGetNecessaryPrefixes(component, t)]
  ELSE IF component.kind = "Is" THEN
    LET r == downlevel_selectors(component.list, t) IN
      [component |-> [component EXCEPT !.list = r.selectors],
       prefixes |->
         r.necessary_prefixes \cup
           (IF /\ ~FeatureIsCompatible("CssMatchesPseudo", t)
               /\ \A i \in 1..Len(r.selectors) : ~has_combinator(r.selectors[i])
            THEN prefixes_for("AnyPseudo", t)
            ELSE VP_empty)]
  ELSE IF component.kind \in {"Where", "Any", "Negation", "Has"} THEN
    LET r == downlevel_selectors(component.list, t) IN
      [component |-> [component EXCEPT !.list = r.selectors],
       prefixes |-> r.necessary_prefixes]
  ELSE [component |-> component, prefixes |-> VP_empty]

downlevel_component(component, t) ==
  IF component.kind = "NonTSPseudoClass" THEN
    IF component.sub = "Dir" THEN
      IF ~FeatureIsCompatible("CssDirPseudo", t)
      THEN downlevel_component(downlevel_dir(component.name, t), t)
      ELSE [component |-> component, prefixes |-> VP_empty]
    ELSE IF component.sub = "Lang" THEN
      IF Len(component.args) > 1 /\ ~FeatureIsCompatible("LangList", t)
      THEN downlevel_component(Is(lang_list_to_selectors(component.args)), t)
      ELSE [component |-> component, prefixes |-> VP_empty]
    ELSE [component |-> component,
          prefixes |-> PseudoClassGetNecessaryPrefixes(component, t)]
  ELSE IF component.kind = "PseudoElement" THEN
    [component |-> component,
     prefixes |-> PseudoElementGetNecessaryPrefixes(component, t)]
  ELSE IF component.kind = "Is" THEN
    LET r == downlevel_selectors(component.list, t) IN
      [component |-> [component EXCEPT !.list = r.selectors],
       prefixes |->
         r.necessary_prefixes \cup
           (IF /\ ~FeatureIsCompatible("CssMatchesPseudo", t)
               /\ \A i \in 1..Len(r.selectors) : ~has_combinator(r.selectors[i])
            THEN prefixes_for("AnyPseudo", t)
            ELSE VP_empty)]
  ELSE IF component.kind \in {"Where", "Any", "Negation", "Has"} THEN
    LET r == downlevel_selectors(component.list, t) IN
      [component |-> [component EXCEPT !.list = r.selectors],
       prefixes |-> r.necessary_prefixes]
  ELSE [component |-> component, prefixes |-> VP_empty]

downlevel_selectors(sels, t) ==
  LET r == [i \in 1..Len(sels) |->
             [j \in 1..Len(sels[i]) |-> downlevel_component(sels[i][j], t)]]
  IN  [selectors |-> [i \in 1..Len(sels) |->
                       [j \in 1..Len(sels[i]) |-> r[i][j].component]],
       necessary_prefixes |->
         UNION {UNION {r[i][j].prefixes : j \in 1..Len(sels[i])} : i \in 1..Len(sels)}]

----------------------------------------------------------------------------
(* The printer.  A text is the sequence of its characters.                 *)

write_str(s) == [i \in 1..Len(s) |-> SubSeq(s, i, i)]
write_char(c) == <<c>>

RECURSIVE Concat(_)
Concat(texts) == IF texts = <<>> THEN <<>> ELSE Head(texts) \o Concat(Tail(texts))

Reverse(s) == [i \in 1..Len(s) |-> s[Len(s) + 1 - i]]

\* slice::get: Some(element) as a sequence of one element, None as <<>>.
Get(s, i) == IF i < Len(s) THEN <<s[i + 1]>> ELSE <<>>

\* Option<PseudoClasses>::None: no pseudo-class is replaced by a class name.
NoPseudoClasses ==
  [hover |-> <<>>, active |-> <<>>, focus |-> <<>>, focus_visible |-> <<>>,
   focus_within |-> <<>>]

\* Printer::css_module: the CSS modules state of the printer, when the
\* stylesheet is a CSS module; hash is the hash of its file.
NoCssModule == [some |-> FALSE, hash |-> <<>>]
CssModule(hash) == [some |-> TRUE, hash |-> hash]

\* The fields of the Printer the serializer reads; context is what
\* Printer::context() returns, a stack of parent selector lists.  marks_taken
\* is not a field of the code: when it is set, every character that is
\* written while a Global arm holds the css_module it took out of the
\* printer is written as the mark "taken", which is how a call that fails
\* in the middle of the text knows the css_module the printer is left with.
Printer(m, t, vp, context) ==
  [minify |-> m, targets |-> t, vendor_prefix |-> vp, context |-> context,
   pseudo_classes |-> NoPseudoClasses, css_module |-> NoCssModule,
   marks_taken |-> FALSE]

\* Printer::delim
delim(ch, ws_before, dest) ==
  (IF ws_before /\ ~dest.minify THEN <<" ">> ELSE <<>>)
    \o <<ch>> \o (IF ~dest.minify THEN <<" ">> ELSE <<>>)

Digits == {"0", "1", "2", "3", "4", "5", "6", "7", "8", "9"}
LowerCase ==
  {"a", "b", "c", "d", "e", "f", "g", "h", "i", "j", "k", "l", "m",
   "n", "o", "p", "q", "r", "s", "t", "u", "v", "w", "x", "y", "z"}
UpperCase ==
  {"A", "B", "C", "D", "E", "F", "G", "H", "I", "J", "K", "L", "M",
   "N", "O", "P", "Q", "R", "S", "T", "U", "V", "W", "X", "Y", "Z"}
NameChars == LowerCase \cup UpperCase \cup Digits \cup {"-", "_"}

\* cssparser::serialize_name, for printable ASCII
serialize_name(value) ==
  Concat([i \in 1..Len(value) |->
           IF value[i] \in NameChars THEN <<value[i]>> ELSE <<"\\", value[i]>>])

\* cssparser::serialize_identifier, for printable ASCII
serialize_identifier(value) ==
  IF value = <<>> THEN <<>>
  ELSE IF Len(value) >= 2 /\ value[1] = "-" /\ value[2] = "-"
  THEN <<"-", "-">> \o serialize_name(SubSeq(value, 3, Len(value)))
  ELSE IF value = <<"-">> THEN <<"\\", "-">>
  ELSE LET dash == value[1] = "-"
           rest == IF dash THEN Tail(value) ELSE value
       IN  (IF dash THEN <<"-">> ELSE <<>>)
             \o (IF rest[1] \in Digits
                 THEN <<"\\", "3", rest[1], " ">> \o serialize_name(Tail(rest))
                 ELSE serialize_name(rest))

\* cssparser::serialize_string, for printable ASCII
serialize_string(value) ==
  <<"\"">>
    \o Concat([i \in 1..Len(value) |->
                IF value[i] \in {"\"", "\\"} THEN <<"\\", value[i]>> ELSE <<value[i]>>])
    \o <<"\"">>

\* The attribute value as serialize_component writes it with minify: the
\* identifier when it is not empty and shorter than the string.
AttributeValueToCss_Quoted(value, dest) == serialize_string(value)

AttributeValueToCss(value, dest) ==
  IF dest.minify
  THEN IF Len(serialize_identifier(value)) > 0
          /\ Len(serialize_identifier(value)) < Len(serialize_string(value))
       THEN serialize_identifier(value)
       ELSE serialize_string(value)
  ELSE serialize_string(value)

\* ToCss of AttrSelectorOperator
AttrSelectorOperatorText ==
  [Equal |-> "=", Includes |-> "~=", DashMatch |-> "|=", Prefix |-> "^=",
   Substring |-> "*=", Suffix |-> "$="]

\* The suffix serialize_component writes for a ParsedCaseSensitivity.
CaseSensitivityText ==
  [CaseSensitive |-> "", AsciiCaseInsensitiveIfInHtmlElementInHtmlDocument |-> "",
   AsciiCaseInsensitive |-> " i", ExplicitCaseSensitive |-> " s"]

\* Printer::write_ident: in a CSS module the name is written after the
\* pattern `[hash]_[local]`, the first segment as an identifier and the
\* others as names.
write_ident(ident, dest) ==
  IF dest.css_module.some
  THEN serialize_identifier(dest.css_module.hash) \o serialize_name(<<"_">>)
         \o serialize_name(ident)
  ELSE serialize_identifier(ident)

\* VendorPrefix::to_css
VendorPrefixToCss(vp) ==
  CASE vp = VP_WebKit -> write_str("-webkit-")
    [] vp = VP_Moz -> write_str("-moz-")
    [] vp = VP_Ms -> write_str("-ms-")
    [] vp = VP_O -> write_str("-o-")
    [] OTHER -> <<>>

\* Combinator::to_css
CombinatorToCss(c, dest) ==
  CASE c.sub = "Child" -> delim(">", TRUE, dest)
    [] c.sub = "Descendant" -> write_str(" ")
    [] c.sub = "NextSibling" -> delim("+", TRUE, dest)
    [] c.sub = "LaterSibling" -> delim("~", TRUE, dest)
    [] OTHER -> <<>>

\* The pseudo-classes written as a fixed name.
PseudoClassText ==
  [Hover |-> ":hover", Active |-> ":active", Focus |-> ":focus",
   FocusVisible |-> ":focus-visible", FocusWithin |-> ":focus-within",
   Current |-> ":current", Past |-> ":past", Future |-> ":future",
   Playing |-> ":playing", Paused |-> ":paused", Seeking |-> ":seeking",
   Buffering |-> ":buffering", Stalled |-> ":stalled", Muted |-> ":muted",
   VolumeLocked |-> ":volume-locked", Defined |-> ":defined", Link |-> ":link",
   LocalLink |-> ":local-link", Target |-> ":target",
   TargetWithin |-> ":target-within", Visited |-> ":visited",
   Enabled |-> ":enabled", Disabled |-> ":disabled", Default |-> ":default",
   Checked |-> ":checked", Indeterminate |-> ":indeterminate", Blank |-> ":blank",
   Valid |-> ":valid", Invalid |-> ":invalid", InRange |-> ":in-range",
   OutOfRange |-> ":out-of-range", Required |-> ":required",
   Optional |-> ":optional", UserValid |-> ":user-valid",
   UserInvalid |-> ":user-invalid"]

\* The pseudo-classes written behind a vendor prefix.
PrefixedPseudoClassText ==
  [AnyLink |-> "any-link", ReadOnly |-> "read-only", ReadWrite |-> "read-write",
   PlaceholderShown |-> "placeholder-shown", Autofill |-> "autofill"]

\* The key of the pseudo! macro for the user-action pseudo-classes.
PseudoClassesKey ==
  [Hover |-> "hover", Active |-> "active", Focus |-> "focus",
   FocusVisible |-> "focus_visible", FocusWithin |-> "focus_within"]

WebKitScrollbarPseudoClassText ==
  [Horizontal |-> ":horizontal", Vertical |-> ":vertical",
   Decrement |-> ":decrement", Increment |-> ":increment", Start |-> ":start",
   End |-> ":end", DoubleButton |-> ":double-button",
   SingleButton |-> ":single-button", NoButton |-> ":no-button",
   CornerPresent |-> ":corner-present", WindowInactive |-> ":window-inactive"]

\* The pseudo-elements written as a fixed name.
PseudoElementText ==
  [After |-> ":after", Before |-> ":before", FirstLine |-> ":first-line",
   FirstLetter |-> ":first-letter", Marker |-> "::marker", Cue |-> "::cue",
   CueRegion |-> "::cue-region"]

WebKitScrollbarPseudoElementText ==
  [Scrollbar |-> "::-webkit-scrollbar", Button |-> "::-webkit-scrollbar-button",
   Track |-> "::-webkit-scrollbar-track",
   TrackPiece |-> "::-webkit-scrollbar-track-piece",
   Thumb |-> "::-webkit-scrollbar-thumb", Corner |-> "::-webkit-scrollbar-corner",
   Resizer |-> "::-webkit-resizer"]

\* The stored prefix, whatever the printer's override.
PrefixInEffect_Stored(prefix, dest) == prefix

\* The prefix a prefixable pseudo is written with: the printer's override
\* when it has one, the stored prefix otherwise.
PrefixInEffect(prefix, dest) ==
  IF dest.vendor_prefix # VP_empty THEN dest.vendor_prefix ELSE prefix

----------------------------------------------------------------------------
(* The serializer.  Every function returns the text it writes.             *)

\* slice::split on the combinators: the compounds in match order.
RECURSIVE Split(_, _, _)
Split(selector, i, compound) ==
  IF i > Len(selector) THEN <<compound>>
  ELSE IF is_combinator(selector[i])
  THEN <<compound>> \o Split(selector, i + 1, <<>>)
  ELSE Split(selector, i + 1, Append(compound, selector[i]))

\* Selector::iter_raw_parse_order_from(0)
iter_raw_parse_order_from_0(selector) == Reverse(iter_raw_match_order(selector))

is_type_selector(component) ==
  component # <<>> /\ component[1].kind \in {"LocalName", "ExplicitUniversalType"}

is_namespace(component) ==
  /\ component # <<>>
  /\ component[1].kind \in {"ExplicitAnyNamespace", "ExplicitNoNamespace",
                            "Namespace", "DefaultNamespace"}

\* is_simple that takes every selector to have a combinator.
is_simple_Never(selector) == FALSE

has_type_selector(selector) ==
  LET it == iter_raw_parse_order_from_0(selector) IN
    IF is_namespace(Get(it, 0)) THEN is_type_selector(Get(it, 1))
    ELSE is_type_selector(Get(it, 0))

is_simple(selector) ==
  ~\E i \in 1..Len(selector) : is_combinator(iter_raw_match_order(selector)[i])

\* Component::to_css of the selectors crate, for the components that
\* serialize_component leaves to it.
SimpleComponentText ==
  [ExplicitUniversalType |-> "*", DefaultNamespace |-> "", ExplicitNoNamespace |-> "|",
   ExplicitAnyNamespace |-> "*|", Root |-> ":root", Empty |-> ":empty",
   Scope |-> ":scope", FirstChild |-> ":first-child", LastChild |-> ":last-child",
   OnlyChild |-> ":only-child", FirstOfType |-> ":first-of-type",
   LastOfType |-> ":last-of-type", OnlyOfType |-> ":only-of-type"]

ComponentToCss(component) ==
  CASE component.kind = "LocalName" -> serialize_identifier(component.name)
    [] component.kind = "Namespace" -> serialize_identifier(component.name) \o <<"|">>
    [] component.kind = "Part" ->
         write_str("::part(")
           \o Concat([i \in 1..Len(component.args) |->
                       (IF i > 1 THEN <<" ">> ELSE <<>>)
                         \o serialize_identifier(component.args[i])])
           \o <<")">>
    [] OTHER -> write_str(SimpleComponentText[component.kind])

\* The first element of the match at lines 1124-1130; first_index counts
\* from 0 as in the code.
can_elide_namespace_Always(compound, first_index) == TRUE

can_elide_namespace(compound, first_index) ==
  LET c == Get(compound, first_index) IN
    ~(c # <<>> /\ c[1].kind \in {"ExplicitAnyNamespace", "ExplicitNoNamespace",
                                 "Namespace"})

\* The second element of the match at lines 1124-1130.
first_non_namespace(compound, first_index) ==
  IF is_namespace(Get(compound, first_index)) THEN first_index + 1 ELSE first_index

supports_nesting(dest) ==
  ~dest.targets.some \/ FeatureIsCompatible("CssNesting", dest.targets)

RECURSIVE serialize_selector(_, _, _, _)
RECURSIVE serialize_selector_list(_, _, _, _)
RECURSIVE serialize_component(_, _, _)
RECURSIVE serialize_nesting(_, _, _)
RECURSIVE serialize_negation(_, _, _)
RECURSIVE serialize_pseudo_class(_, _, _)
RECURSIVE serialize_pseudo_element(_, _, _)
RECURSIVE SerializeCompounds(_, _, _, _, _, _, _, _)

\* Selector::to_css
SelectorToCss(selector, dest) == serialize_selector(selector, dest, dest.context, FALSE)

\* The loop `for simple in iter` of step 2 (lines 1199-1210).
SerializeRest(simples, elide, dest, context) ==
  Concat([i \in 1..Len(simples) |->
           IF simples[i].kind = "ExplicitUniversalType" /\ elide THEN <<>>
           ELSE serialize_component(simples[i], dest, context)])

\* One turn of the loop over the compounds, from line 1110 on, for a
\* compound that is not empty; next_combinator is Some(c) as <<c>>.
SerializeCompound(compound, next_combinator, first, dest, context) ==
  LET has_leading_nesting == first /\ compound[1].kind = "Nesting"
      first_index == IF has_leading_nesting THEN 1 ELSE 0
      elide == can_elide_namespace(compound, first_index)
      fnn == first_non_namespace(compound, first_index)
      universal_only ==
        /\ fnn = Len(compound) - 1
        /\ ~(/\ next_combinator # <<>>
             /\ next_combinator[1].sub \in {"PseudoElement", "SlotAssignment"})
        /\ compound[fnn + 1].kind = "ExplicitUniversalType"
      swap_nesting == has_leading_nesting /\ ~supports_nesting(dest)
      step_1 ==
        Concat([i \in 1..Len(compound) |->
                 IF swap_nesting /\ i = 1 THEN <<>>
                 ELSE serialize_component(compound[i], dest, context)])
          \o (IF swap_nesting THEN serialize_nesting(dest, context, FALSE) ELSE <<>>)
      step_2 ==
        IF swap_nesting /\ is_type_selector(Get(compound, fnn))
        THEN serialize_component(compound[2], dest, context)
               \o (IF fnn > first_index
                   THEN serialize_component(compound[3], dest, context) ELSE <<>>)
               \o serialize_component(compound[1], dest, context)
               \o SerializeRest(SubSeq(compound, IF fnn > first_index THEN 4 ELSE 3,
                                       Len(compound)), elide, dest, context)
        ELSE IF swap_nesting
        THEN serialize_nesting(dest, context, TRUE)
               \o SerializeRest(Tail(compound), elide, dest, context)
        ELSE SerializeRest(compound, elide, dest, context)
  IN  (IF universal_only THEN step_1 ELSE step_2)
        \o (IF next_combinator # <<>> THEN CombinatorToCss(next_combinator[1], dest)
            ELSE <<>>)

\* The loop over the compounds (lines 1093-1228): compound k, with ci - 1
\* combinators taken from the iterator so far.
SerializeCompounds(compounds, combinators, k, ci, first, is_relative, dest, context) ==
  IF k > Len(compounds) THEN <<>>
  ELSE
    LET scoped ==
          is_relative /\ compounds[k] # <<>> /\ compounds[k][1].kind = "Scope"
        taken == scoped /\ ci <= Len(combinators)
        ci_1 == IF taken THEN ci + 1 ELSE ci
        compound == IF scoped THEN Tail(compounds[k]) ELSE compounds[k]
        relative == is_relative /\ ~scoped
    IN  (IF taken THEN CombinatorToCss(combinators[ci], dest) ELSE <<>>)
          \o (IF compound = <<>>
              THEN SerializeCompounds(compounds, combinators, k + 1, ci_1, first,
                                      relative, dest, context)
              ELSE SerializeCompound(compound, Get(combinators, ci_1 - 1), first,
                                     dest, context)
                     \o SerializeCompounds(compounds, combinators, k + 1,
                                           IF ci_1 <= Len(combinators) THEN ci_1 + 1
                                           ELSE ci_1,
                                           FALSE, relative, dest, context))

serialize_selector(selector, dest, context, is_relative) ==
  LET combinators ==
        Reverse(SelectSeq(iter_raw_match_order(selector), is_combinator))
      compound_selectors == Reverse(Split(iter_raw_match_order(selector), 1, <<>>))
  IN  SerializeCompounds(compound_selectors, combinators, 1, 1, TRUE, is_relative,
                         dest, context)

serialize_selector_list(sels, dest, context, is_relative) ==
  Concat([i \in 1..Len(sels) |->
           (IF i > 1 THEN delim(",", FALSE, dest) ELSE <<>>)
             \o serialize_selector(sels[i], dest, context, is_relative)])

\* serialize_negation that writes one :not() for every list.
serialize_negation_OneList(sels, dest, context) ==
  write_str(":not(") \o serialize_selector_list(sels, dest, context, FALSE) \o <<")">>

serialize_negation(sels, dest, context) ==
  LET is_supported ==
        IF dest.targets.some THEN FeatureIsCompatible("CssNotSelList", dest.targets)
        ELSE TRUE
  IN  IF is_supported
      THEN write_str(":not(") \o serialize_selector_list(sels, dest, context, FALSE)
             \o <<")">>
      ELSE Concat([i \in 1..Len(sels) |->
                    write_str(":not(") \o serialize_selector(sels[i], dest, context, FALSE)
                      \o <<")">>])

serialize_nesting(dest, context, first) ==
  IF context # <<>> THEN
    LET ctx_selectors == Head(context)
        ctx_parent == Tail(context)
    IN  IF /\ Len(ctx_selectors) = 1
           /\ \/ first
              \/ ~has_type_selector(ctx_selectors[1]) /\ is_simple(ctx_selectors[1])
        THEN serialize_selector(ctx_selectors[1], dest, ctx_parent, FALSE)
        ELSE write_str(":is(")
               \o serialize_selector_list(ctx_selectors, dest, ctx_parent, FALSE)
               \o <<")">>
  ELSE IF supports_nesting(dest) THEN <<"&">> ELSE write_str(":scope")

serialize_component(component, dest, context) ==
  CASE component.kind = "Combinator" -> CombinatorToCss(component, dest)
    [] component.kind = "Where" ->
         write_str(":where(")
           \o serialize_selector_list(component.list, dest, context, FALSE) \o <<")">>
    [] component.kind = "Is" ->
         IF /\ Len(component.list) = 1
            /\ ~has_type_selector(component.list[1])
            /\ is_simple(component.list[1])
         THEN serialize_selector(component.list[1], dest, context, FALSE)
         ELSE (IF dest.vendor_prefix \cap (VP_WebKit \cup VP_Moz) # {}
               THEN <<":">> \o VendorPrefixToCss(dest.vendor_prefix) \o write_str("any(")
               ELSE write_str(":is("))
                \o serialize_selector_list(component.list, dest, context, FALSE)
                \o <<")">>
    [] component.kind = "Negation" -> serialize_negation(component.list, dest, context)
    [] component.kind = "Any" ->
         <<":">> \o VendorPrefixToCss(component.vp) \o write_str("any(")
           \o serialize_selector_list(component.list, dest, context, FALSE) \o <<")">>
    [] component.kind = "AttributeInNoNamespace" ->
         <<"[">> \o serialize_identifier(component.name)
           \o write_str(AttrSelectorOperatorText[component.args[1]])
           \o AttributeValueToCss(component.args[2], dest)
           \o write_str(CaseSensitivityText[component.sub])
           \o <<"]">>
    [] component.kind = "Has" ->
         write_str(":has(")
           \o serialize_selector_list(component.list, dest, context, TRUE) \o <<")">>
    [] component.kind = "NonTSPseudoClass" ->
         serialize_pseudo_class(component, dest, context)
    [] component.kind = "PseudoElement" ->
         serialize_pseudo_element(component, dest, context)
    [] component.kind = "Nesting" -> serialize_nesting(dest, context, FALSE)
    [] component.kind = "Class" -> <<".">> \o write_ident(component.name, dest)
    [] component.kind = "ID" -> <<"#">> \o write_ident(component.name, dest)
    [] component.kind = "Host" ->
         write_str(":host")
           \o (IF component.list # <<>>
               THEN <<"(">> \o SelectorToCss(component.list[1], dest) \o <<")">>
               ELSE <<>>)
    [] component.kind = "Slotted" ->
         write_str("::slotted(") \o SelectorToCss(component.list[1], dest) \o <<")">>
    [] OTHER -> ComponentToCss(component)

serialize_pseudo_class(pseudo_class, dest, context) ==
  CASE pseudo_class.sub = "Lang" ->
         write_str(":lang(")
           \o Concat([i \in 1..Len(pseudo_class.args) |->
                       (IF i > 1 THEN delim(",", FALSE, dest) ELSE <<>>)
                         \o serialize_identifier(pseudo_class.args[i])])
           \o <<")">>
    [] pseudo_class.sub = "Dir" ->
         write_str(":dir(") \o pseudo_class.name \o <<")">>
    [] pseudo_class.sub \in DOMAIN PseudoClassesKey ->
         LET class == dest.pseudo_classes[PseudoClassesKey[pseudo_class.sub]] IN
           IF class # <<>> THEN <<".">> \o write_ident(class, dest)
           ELSE write_str(PseudoClassText[pseudo_class.sub])
    [] pseudo_class.sub = "Fullscreen" ->
         LET vp == PrefixInEffect(pseudo_class.vp, dest) IN
           <<":">> \o VendorPrefixToCss(vp)
             \o (IF vp = VP_WebKit \/ vp = VP_Moz THEN write_str("full-screen")
                 ELSE write_str("fullscreen"))
    [] pseudo_class.sub \in DOMAIN PrefixedPseudoClassText ->
         <<":">> \o VendorPrefixToCss(PrefixInEffect(pseudo_class.vp, dest))
           \o write_str(PrefixedPseudoClassText[pseudo_class.sub])
    [] pseudo_class.sub = "Local" ->
         serialize_selector(pseudo_class.list[1], dest, context, FALSE)
    [] pseudo_class.sub = "Global" ->
         IF dest.marks_taken
         THEN [i \in 1..Len(serialize_selector(
                              pseudo_class.list[1],
                              [dest EXCEPT !.css_module = NoCssModule], context, FALSE))
                 |-> "taken"]
         ELSE serialize_selector(pseudo_class.list[1],
                                 [dest EXCEPT !.css_module = NoCssModule], context, FALSE)
    [] pseudo_class.sub = "WebKitScrollbar" ->
         write_str(WebKitScrollbarPseudoClassText[pseudo_class.args[1]])
    [] pseudo_class.sub = "Custom" -> <<":">> \o pseudo_class.name
    [] pseudo_class.sub = "CustomFunction" ->
         <<":">> \o pseudo_class.name \o <<"(">> \o Concat(pseudo_class.args) \o <<")">>
    [] OTHER -> write_str(PseudoClassText[pseudo_class.sub])

serialize_pseudo_element(pseudo_element, dest, context) ==
  CASE pseudo_element.sub \in {"Selection", "Backdrop"} ->
         write_str("::") \o VendorPrefixToCss(PrefixInEffect(pseudo_element.vp, dest))
           \o (IF pseudo_element.sub = "Selection" THEN write_str("selection")
               ELSE write_str("backdrop"))
    [] pseudo_element.sub \in {"CueFunction", "CueRegionFunction"} ->
         (IF pseudo_element.sub = "CueFunction" THEN write_str("::cue(")
          ELSE write_str("::cue-region("))
           \o serialize_selector(pseudo_element.list[1], dest, context, FALSE)
           \o <<")">>
    [] pseudo_element.sub = "Placeholder" ->
         LET vp == PrefixInEffect(pseudo_element.vp, dest) IN
           write_str("::") \o VendorPrefixToCss(vp)
             \o (IF vp = VP_WebKit \/ vp = VP_Ms THEN write_str("input-placeholder")
                 ELSE write_str("placeholder"))
    [] pseudo_element.sub = "FileSelectorButton" ->
         LET vp == PrefixInEffect(pseudo_element.vp, dest) IN
           write_str("::") \o VendorPrefixToCss(vp)
             \o (IF vp = VP_WebKit THEN write_str("file-upload-button")
                 ELSE IF vp = VP_Ms THEN write_str("browse")
                 ELSE write_str("file-selector-button"))
    [] pseudo_element.sub = "WebKitScrollbar" ->
         write_str(WebKitScrollbarPseudoElementText[pseudo_element.args[1]])
    [] pseudo_element.sub = "Custom" -> write_str("::") \o pseudo_element.name
    [] pseudo_element.sub = "CustomFunction" ->
         write_str("::") \o pseudo_element.name \o <<"(">>
           \o Concat(pseudo_element.args) \o <<")">>
    [] OTHER -> write_str(PseudoElementText[pseudo_element.sub])

\* SelectorList::to_css
SelectorListToCss(sels, dest) == serialize_selector_list(sels, dest, dest.context, FALSE)

----------------------------------------------------------------------------
(* The parser.  The grammar is that of the selectors crate; the names of   *)
(* the pseudo-classes and pseudo-elements are those of SelectorParser.     *)
(* The model reads type selectors with namespace prefixes, classes, ids,   *)
(* &, pseudo-classes, pseudo-elements, :is(), :where(), :not(),            *)
(* :-webkit-any(), :-moz-any(), :lang(), :dir(), the four combinators and  *)
(* commas, over letters, digits, `-` and `_` without escapes.              *)

UpperToLower ==
  [A |-> "a", B |-> "b", C |-> "c", D |-> "d", E |-> "e", F |-> "f", G |-> "g",
   H |-> "h", I |-> "i", J |-> "j", K |-> "k", L |-> "l", M |-> "m", N |-> "n",
   O |-> "o", P |-> "p", Q |-> "q", R |-> "r", S |-> "s", T |-> "t", U |-> "u",
   V |-> "v", W |-> "w", X |-> "x", Y |-> "y", Z |-> "z"]

\* str::to_ascii_lowercase, the comparison of match_ignore_ascii_case!
to_ascii_lowercase(name) ==
  [i \in 1..Len(name) |->
    IF name[i] \in DOMAIN UpperToLower THEN UpperToLower[name[i]] ELSE name[i]]

WebKitScrollbarPseudoClass(variant) ==
  [PseudoClass("WebKitScrollbar") EXCEPT !.args = <<variant>>]
WebKitScrollbarPseudoElement(variant) ==
  [PseudoElement("WebKitScrollbar") EXCEPT !.args = <<variant>>]

\* The match of parse_non_ts_pseudo_class.
PseudoClassNames ==
  {<<"hover", PseudoClass("Hover")>>, <<"active", PseudoClass("Active")>>,
   <<"focus", PseudoClass("Focus")>>, <<"focus-visible", PseudoClass("FocusVisible")>>,
   <<"focus-within", PseudoClass("FocusWithin")>>,
   <<"current", PseudoClass("Current")>>, <<"past", PseudoClass("Past")>>,
   <<"future", PseudoClass("Future")>>, <<"playing", PseudoClass("Playing")>>,
   <<"paused", PseudoClass("Paused")>>, <<"seeking", PseudoClass("Seeking")>>,
   <<"buffering", PseudoClass("Buffering")>>, <<"stalled", PseudoClass("Stalled")>>,
   <<"muted", PseudoClass("Muted")>>, <<"volume-locked", PseudoClass("VolumeLocked")>>,
   <<"fullscreen", PrefixedPseudoClass("Fullscreen", VP_None)>>,
   <<"-webkit-full-screen", PrefixedPseudoClass("Fullscreen", VP_WebKit)>>,
   <<"-moz-full-screen", PrefixedPseudoClass("Fullscreen", VP_Moz)>>,
   <<"-ms-fullscreen", PrefixedPseudoClass("Fullscreen", VP_Ms)>>,
   <<"defined", PseudoClass("Defined")>>,
   <<"any-link", PrefixedPseudoClass("AnyLink", VP_None)>>,
   <<"-webkit-any-link", PrefixedPseudoClass("AnyLink", VP_WebKit)>>,
   <<"-moz-any-link", PrefixedPseudoClass("AnyLink", VP_Moz)>>,
   <<"link", PseudoClass("Link")>>, <<"local-link", PseudoClass("LocalLink")>>,
   <<"target", PseudoClass("Target")>>, <<"target-within", PseudoClass("TargetWithin")>>,
   <<"visited", PseudoClass("Visited")>>, <<"enabled", PseudoClass("Enabled")>>,
   <<"disabled", PseudoClass("Disabled")>>,
   <<"read-only", PrefixedPseudoClass("ReadOnly", VP_None)>>,
   <<"-moz-read-only", PrefixedPseudoClass("ReadOnly", VP_Moz)>>,
   <<"read-write", PrefixedPseudoClass("ReadWrite", VP_None)>>,
   <<"-moz-read-write", PrefixedPseudoClass("ReadWrite", VP_Moz)>>,
   <<"placeholder-shown", PrefixedPseudoClass("PlaceholderShown", VP_None)>>,
   <<"-moz-placeholder-shown", PrefixedPseudoClass("PlaceholderShown", VP_Moz)>>,
   <<"-ms-placeholder-shown", PrefixedPseudoClass("PlaceholderShown", VP_Ms)>>,
   <<"default", PseudoClass("Default")>>, <<"checked", PseudoClass("Checked")>>,
   <<"indeterminate", PseudoClass("Indeterminate")>>, <<"blank", PseudoClass("Blank")>>,
   <<"valid", PseudoClass("Valid")>>, <<"invalid", PseudoClass("Invalid")>>,
   <<"in-range", PseudoClass("InRange")>>, <<"out-of-range", PseudoClass("OutOfRange")>>,
   <<"required", PseudoClass("Required")>>, <<"optional", PseudoClass("Optional")>>,
   <<"user-valid", PseudoClass("UserValid")>>,
   <<"user-invalid", PseudoClass("UserInvalid")>>,
   <<"autofill", PrefixedPseudoClass("Autofill", VP_None)>>,
   <<"-webkit-autofill", PrefixedPseudoClass("Autofill", VP_WebKit)>>,
   <<"-o-autofill", PrefixedPseudoClass("Autofill", VP_O)>>,
   <<"horizontal", WebKitScrollbarPseudoClass("Horizontal")>>,
   <<"vertical", WebKitScrollbarPseudoClass("Vertical")>>,
   <<"decrement", WebKitScrollbarPseudoClass("Decrement")>>,
   <<"increment", WebKitScrollbarPseudoClass("Increment")>>,
   <<"start", WebKitScrollbarPseudoClass("Start")>>,
   <<"end", WebKitScrollbarPseudoClass("End")>>,
   <<"double-button", WebKitScrollbarPseudoClass("DoubleButton")>>,
   <<"single-button", WebKitScrollbarPseudoClass("SingleButton")>>,
   <<"no-button", WebKitScrollbarPseudoClass("NoButton")>>,
   <<"corner-present", WebKitScrollbarPseudoClass("CornerPresent")>>,
   <<"window-inactive", WebKitScrollbarPseudoClass("WindowInactive")>>}

\* The match of parse_pseudo_element.
PseudoElementNames ==
  {<<"before", PseudoElement("Before")>>, <<"after", PseudoElement("After")>>,
   <<"first-line", PseudoElement("FirstLine")>>,
   <<"first-letter", PseudoElement("FirstLetter")>>,
   <<"cue", PseudoElement("Cue")>>, <<"cue-region", PseudoElement("CueRegion")>>,
   <<"selection", PrefixedPseudoElement("Selection", VP_None)>>,
   <<"-moz-selection", PrefixedPseudoElement("Selection", VP_Moz)>>,
   <<"placeholder", PrefixedPseudoElement("Placeholder", VP_None)>>,
   <<"-webkit-input-placeholder", PrefixedPseudoElement("Placeholder", VP_WebKit)>>,
   <<"-moz-placeholder", PrefixedPseudoElement("Placeholder", VP_Moz)>>,
   <<"-ms-input-placeholder", PrefixedPseudoElement("Placeholder", VP_Moz)>>,
   <<"marker", PseudoElement("Marker")>>,
   <<"backdrop", PrefixedPseudoElement("Backdrop", VP_None)>>,
   <<"-webkit-backdrop", PrefixedPseudoElement("Backdrop", VP_WebKit)>>,
   <<"file-selector-button", PrefixedPseudoElement("FileSelectorButton", VP_None)>>,
   <<"-webkit-file-upload-button", PrefixedPseudoElement("FileSelectorButton", VP_WebKit)>>,
   <<"-ms-browse", PrefixedPseudoElement("FileSelectorButton", VP_Ms)>>,
   <<"-webkit-scrollbar", WebKitScrollbarPseudoElement("Scrollbar")>>,
   <<"-webkit-scrollbar-button", WebKitScrollbarPseudoElement("Button")>>,
   <<"-webkit-scrollbar-track", WebKitScrollbarPseudoElement("Track")>>,
   <<"-webkit-scrollbar-track-piece", WebKitScrollbarPseudoElement("TrackPiece")>>,
   <<"-webkit-scrollbar-thumb", WebKitScrollbarPseudoElement("Thumb")>>,
   <<"-webkit-scrollbar-corner", WebKitScrollbarPseudoElement("Corner")>>,
   <<"-webkit-resizer", WebKitScrollbarPseudoElement("Resizer")>>}

\* The arm of a name table that matches a name, ignoring ASCII case, as a
\* set of at most one component.
Lookup(names, name) ==
  {e[2] : e \in {f \in names : write_str(f[1]) = to_ascii_lowercase(name)}}

parse_non_ts_pseudo_class(name) ==
  LET arm == Lookup(PseudoClassNames, name) IN
    IF arm # {} THEN CHOOSE c \in arm : TRUE ELSE CustomPseudoClass(name)

parse_pseudo_element(name) ==
  LET arm == Lookup(PseudoElementNames, name) IN
    IF arm # {} THEN CHOOSE c \in arm : TRUE ELSE CustomPseudoElement(name)

parse_any_prefix(name) ==
  IF to_ascii_lowercase(name) = write_str("-webkit-any") THEN <<VP_WebKit>>
  ELSE IF to_ascii_lowercase(name) = write_str("-moz-any") THEN <<VP_Moz>>
  ELSE <<>>

\* ParserOptions::warnings: the sink for the parser's warnings, when the
\* caller has made one.
NoWarnings == [some |-> FALSE, list |-> <<>>]
Warnings(list) == [some |-> TRUE, list |-> list]

\* starts_with that finds the character at the head of no name.
starts_with_Never(name, ch) == FALSE

\* str::starts_with, on one character
starts_with(name, ch) == name # <<>> /\ name[1] = ch

\* SelectorParseErrorKind::UnsupportedPseudoClassOrElement(name)
UnsupportedPseudoClassOrElement(name) ==
  [kind |-> "UnsupportedPseudoClassOrElement", name |-> name]

\* ParserOptions::warn: the warning is pushed when the options have a sink.
warn(options_warnings, warning) ==
  IF options_warnings.some
  THEN Warnings(Append(options_warnings.list, warning))
  ELSE options_warnings

\* The default arm of the four matches on a name, as far as warnings go.
WarnUnsupported(options_warnings, name) ==
  IF ~starts_with(name, "-")
  THEN warn(options_warnings, UnsupportedPseudoClassOrElement(name))
  ELSE options_warnings

\* The sink after parse_non_ts_pseudo_class and after parse_pseudo_element.
PseudoClassWarnings(options_warnings, name) ==
  IF Lookup(PseudoClassNames, name) # {} THEN options_warnings
  ELSE WarnUnsupported(options_warnings, name)

PseudoElementWarnings(options_warnings, name) ==
  IF Lookup(PseudoElementNames, name) # {} THEN options_warnings
  ELSE WarnUnsupported(options_warnings, name)

\* The sink after the warnings of a list were pushed, in the order of the
\* list.
RECURSIVE WarnAll(_, _)
WarnAll(options_warnings, warned) ==
  IF warned = <<>> THEN options_warnings
  ELSE WarnAll(warn(options_warnings, warned[1]), Tail(warned))

is_user_action_state(pc) ==
  pc.sub \in {"Active", "Hover", "Focus", "FocusWithin", "FocusVisible"}

\* The tree-structural pseudo-classes without arguments of the selectors
\* crate.
TreeStructuralNames ==
  {<<"first-child", FirstChild>>, <<"last-child", Comp("LastChild")>>,
   <<"only-child", Comp("OnlyChild")>>, <<"root", Root>>, <<"empty", Comp("Empty")>>,
   <<"scope", Scope>>, <<"host", Host(<<>>)>>,
   <<"first-of-type", Comp("FirstOfType")>>, <<"last-of-type", Comp("LastOfType")>>,
   <<"only-of-type", Comp("OnlyOfType")>>}

\* is_css2_pseudo_element
is_css2_pseudo_element(name) ==
  to_ascii_lowercase(name) \in
    {write_str("before"), write_str("after"), write_str("first-line"),
     write_str("first-letter")}

\* SelectorParser: the options the grammar asks it for.
SelectorParser(options_nesting, options_css_modules) ==
  [is_nesting_allowed |-> options_nesting, css_modules |-> options_css_modules]

\* The character at a position; "" behind the end of the input.
At(text, pos) == IF pos >= 1 /\ pos <= Len(text) THEN text[pos] ELSE ""

\* The result of a parsing step: the position behind what was read and the
\* components read, in parse order.
\* warned holds the warnings the callbacks have made on the way, in the
\* order they were made; a failed step keeps the ones made before it failed.
Parsed(pos, out) == [ok |-> TRUE, pos |-> pos, out |-> out, warned |-> <<>>]
Failed == [ok |-> FALSE, pos |-> 0, out |-> <<>>, warned |-> <<>>]
Cons(out, r) == IF r.ok THEN [r EXCEPT !.out = out \o @] ELSE r
FailedAfter(warned) == [Failed EXCEPT !.warned = warned]
Warn(warned, r) == [r EXCEPT !.warned = warned \o @]

RECURSIVE skip_whitespace(_, _)
skip_whitespace(text, pos) ==
  IF At(text, pos) = " " THEN skip_whitespace(text, pos + 1) ELSE pos

RECURSIVE NameEnd(_, _)
NameEnd(text, pos) ==
  IF At(text, pos) \in NameChars THEN NameEnd(text, pos + 1) ELSE pos

\* The position behind the identifier that starts at pos; pos when none does.
IdentEnd(text, pos) ==
  LET start == LowerCase \cup UpperCase \cup {"_"} IN
    IF At(text, pos) \in start THEN NameEnd(text, pos + 1)
    ELSE IF At(text, pos) = "-" /\ At(text, pos + 1) \in start \cup {"-"}
    THEN NameEnd(text, pos + 2)
    ELSE pos

\* The position of the `)` that closes the block entered before pos, or the
\* end of the input.
RECURSIVE BlockEnd(_, _, _)
BlockEnd(text, pos, depth) ==
  IF pos > Len(text) THEN pos
  ELSE IF text[pos] = "(" THEN BlockEnd(text, pos + 1, depth + 1)
  ELSE IF text[pos] = ")"
  THEN IF depth = 0 THEN pos ELSE BlockEnd(text, pos + 1, depth - 1)
  ELSE BlockEnd(text, pos + 1, depth)

\* Parser::parse_comma_separated: the pieces between the commas that stand
\* outside every block.
RECURSIVE SplitCommas(_, _, _, _)
SplitCommas(text, pos, depth, piece) ==
  IF pos > Len(text) THEN <<piece>>
  ELSE IF text[pos] = "," /\ depth = 0
  THEN <<piece>> \o SplitCommas(text, pos + 1, 0, <<>>)
  ELSE SplitCommas(text, pos + 1,
                   IF text[pos] = "(" THEN depth + 1
                   ELSE IF text[pos] = ")" /\ depth > 0 THEN depth - 1 ELSE depth,
                   Append(piece, text[pos]))

Trim(text) ==
  LET first == skip_whitespace(text, 1)
      last == CHOOSE k \in 0..Len(text) :
                /\ \A i \in (k + 1)..Len(text) : text[i] = " "
                /\ k > 0 => text[k] # " "
  IN  SubSeq(text, first, last)

\* SelectorBuilder::build: the compounds of the parse-order stream from
\* right to left, each in the order it was written.
BuildSelector(stream) ==
  LET compounds == Split(stream, 1, <<>>)
      combinators == SelectSeq(stream, is_combinator)
      n == Len(compounds)
  IN  Concat([i \in 1..n |->
               compounds[n + 1 - i] \o (IF i < n THEN <<combinators[n - i]>> ELSE <<>>)])

\* parse_type_selector: an optional namespace prefix and a local name or `*`.
LocalNameAt(text, pos, prefix) ==
  IF At(text, pos) = "*" THEN Parsed(pos + 1, prefix \o <<ExplicitUniversalType>>)
  ELSE IF IdentEnd(text, pos) > pos
  THEN Parsed(IdentEnd(text, pos),
              prefix \o <<LocalName(SubSeq(text, pos, IdentEnd(text, pos) - 1))>>)
  ELSE Failed

parse_type_selector(text, pos) ==
  LET e == IdentEnd(text, pos) IN
    IF At(text, pos) = "*"
    THEN IF At(text, pos + 1) = "|"
         THEN LocalNameAt(text, pos + 2, <<ExplicitAnyNamespace>>)
         ELSE Parsed(pos + 1, <<ExplicitUniversalType>>)
    ELSE IF At(text, pos) = "|"
    THEN LocalNameAt(text, pos + 1, <<ExplicitNoNamespace>>)
    ELSE IF e > pos
    THEN IF At(text, e) = "|"
         THEN LocalNameAt(text, e + 1, <<Namespace(SubSeq(text, pos, e - 1))>>)
         ELSE Parsed(e, <<LocalName(SubSeq(text, pos, e - 1))>>)
    ELSE Parsed(pos, <<>>)

RECURSIVE ParseSelectorList(_, _, _)
RECURSIVE parse_selector(_, _, _, _)
RECURSIVE ParseSimples(_, _, _, _, _)
RECURSIVE ParsePseudo(_, _, _, _, _)

\* parse_compound_selector, behind the type selector: has_pseudo_element
\* tells whether a pseudo-element was read.
CompoundOf(nesting, type, simples) ==
  IF ~simples.ok \/ nesting \o type.out \o simples.out = <<>>
  THEN FailedAfter(simples.warned)
  ELSE [ok |-> TRUE, pos |-> simples.pos, out |-> nesting \o type.out \o simples.out,
        warned |-> simples.warned,
        has_pseudo_element |->
          \E i \in 1..Len(simples.out) : simples.out[i].kind = "PseudoElement"]

CompoundAfterType(parser, text, nesting, type, allows_pseudos) ==
  CompoundOf(nesting, type,
             IF type.ok THEN ParseSimples(parser, text, type.pos, allows_pseudos, FALSE)
             ELSE Failed)

CompoundAt(parser, text, start, allows_pseudos) ==
  IF parser.is_nesting_allowed /\ At(text, start) = "&"
  THEN CompoundAfterType(parser, text, <<Nesting>>,
                         parse_type_selector(text, start + 1), allows_pseudos)
  ELSE CompoundAfterType(parser, text, <<>>,
                         parse_type_selector(text, start), allows_pseudos)

parse_compound_selector(parser, text, pos, allows_pseudos) ==
  CompoundAt(parser, text, skip_whitespace(text, pos), allows_pseudos)

\* parse_one_simple_selector for `.` and `#`.
ParseNamed(parser, text, pos, e, allows_pseudos, after_pseudo_element) ==
  IF after_pseudo_element \/ e = pos + 1 THEN Failed
  ELSE Cons(<<IF text[pos] = "." THEN Class(SubSeq(text, pos + 1, e - 1))
              ELSE ID(SubSeq(text, pos + 1, e - 1))>>,
            ParseSimples(parser, text, e, allows_pseudos, FALSE))

\* parse_one_simple_selector, repeated to the end of the compound.
ParseSimples(parser, text, pos, allows_pseudos, after_pseudo_element) ==
  IF At(text, pos) \in {".", "#"}
  THEN ParseNamed(parser, text, pos, IdentEnd(text, pos + 1), allows_pseudos,
                  after_pseudo_element)
  ELSE IF At(text, pos) = "&" /\ parser.is_nesting_allowed
  THEN Cons(<<Nesting>>,
            ParseSimples(parser, text, pos + 1, allows_pseudos, after_pseudo_element))
  ELSE IF At(text, pos) = ":"
  THEN ParsePseudo(parser, text, pos, allows_pseudos, after_pseudo_element)
  ELSE Parsed(pos, <<>>)

\* TokenList::parse on the arguments of a function: the texts of the tokens,
\* a run of whitespace being one token.  The arguments are made of names,
\* spaces and single-character delimiters, which it does not reject.
RECURSIVE TokenListParse(_)
TokenListParse(arguments) ==
  IF arguments = <<>> THEN <<>>
  ELSE IF arguments[1] = " "
  THEN <<<<" ">>>>
         \o TokenListParse(SubSeq(arguments, skip_whitespace(arguments, 1), Len(arguments)))
  ELSE IF IdentEnd(arguments, 1) > 1
  THEN <<SubSeq(arguments, 1, IdentEnd(arguments, 1) - 1)>>
         \o TokenListParse(SubSeq(arguments, IdentEnd(arguments, 1), Len(arguments)))
  ELSE <<<<arguments[1]>>>> \o TokenListParse(Tail(arguments))

\* The functions the grammar reads itself and the model does not read.
UnreadFunctions ==
  {write_str("nth-child"), write_str("nth-last-child"), write_str("nth-of-type"),
   write_str("nth-last-of-type"), write_str("has"), write_str("host")}

\* The arms of parse_non_ts_functional_pseudo_class that name a function:
\* `local` and `global` are read when the parser options have css_modules
\* and take the default arm otherwise.
NonTsFunctions(options_css_modules) ==
  {write_str("lang"), write_str("dir")}
    \cup (IF options_css_modules THEN {write_str("local"), write_str("global")} ELSE {})

\* parse_functional_pseudo_class: the component in a sequence, <<>> when the
\* arguments are rejected.  The last arm is the default arm of
\* parse_non_ts_functional_pseudo_class.
FunctionalOf(name, lower, any_prefix, options_css_modules, arguments, languages, list, selector) ==
  IF lower \in {write_str("is"), write_str("where"), write_str("not")} \/ any_prefix # <<>>
  THEN IF ~list.ok THEN <<>>
       ELSE IF lower = write_str("is") THEN <<Is(list.out)>>
       ELSE IF lower = write_str("where") THEN <<Where(list.out)>>
       ELSE IF lower = write_str("not") THEN <<Negation(list.out)>>
       ELSE <<ComponentAny(any_prefix[1], list.out)>>
  ELSE IF lower = write_str("lang")
  THEN IF \A i \in 1..Len(languages) :
            languages[i] # <<>> /\ IdentEnd(languages[i], 1) = Len(languages[i]) + 1
       THEN <<Lang(languages)>> ELSE <<>>
  ELSE IF lower = write_str("dir")
  THEN IF to_ascii_lowercase(arguments) \in {Ltr, Rtl}
       THEN <<Dir(to_ascii_lowercase(arguments))>> ELSE <<>>
  ELSE IF lower \in {write_str("local"), write_str("global")} /\ options_css_modules
  THEN IF ~selector.ok \/ Len(selector.out) # 1 THEN <<>>
       ELSE IF lower = write_str("local") THEN <<Local(selector.out[1])>>
       ELSE <<Global(selector.out[1])>>
  ELSE IF lower \in UnreadFunctions THEN <<>>
  ELSE <<CustomFunctionPseudoClass(name, TokenListParse(arguments))>>

LanguagesOf(pieces) == [i \in 1..Len(pieces) |-> Trim(pieces[i])]

\* Selector::parse on the arguments of a function: one selector, which
\* must be all of the arguments.  What follows a comma is not read, so the
\* warnings are those of the selector before it.
SelectorParse(parser, text, allows_pseudos) ==
  [ParseSelectorList(parser, text, allows_pseudos) EXCEPT
     !.warned = parse_selector(parser, SplitCommas(text, 1, 0, <<>>)[1], 1,
                               allows_pseudos).warned]

parse_functional_pseudo_class(parser, name, arguments) ==
  FunctionalOf(name, to_ascii_lowercase(name), parse_any_prefix(name), parser.css_modules,
               Trim(arguments), LanguagesOf(SplitCommas(arguments, 1, 0, <<>>)),
               ParseSelectorList(parser, arguments, FALSE),
               SelectorParse(parser, arguments, TRUE))

\* The sink after parse_functional_pseudo_class: the functions that take
\* selectors leave the warnings of the callbacks on their arguments, list
\* being the arguments read as a selector list and selector as one
\* selector; the default arm of parse_non_ts_functional_pseudo_class warns
\* of the name before the arguments are read.
FunctionalPseudoClassWarnings(options_warnings, options_css_modules, name, list, selector) ==
  IF \/ to_ascii_lowercase(name) \in {write_str("is"), write_str("where"), write_str("not")}
     \/ parse_any_prefix(name) # <<>>
  THEN WarnAll(options_warnings, list.warned)
  ELSE IF /\ to_ascii_lowercase(name) \in {write_str("local"), write_str("global")}
          /\ options_css_modules
  THEN WarnAll(options_warnings, selector.warned)
  ELSE IF to_ascii_lowercase(name) \in UnreadFunctions \cup NonTsFunctions(options_css_modules)
  THEN options_warnings
  ELSE WarnUnsupported(options_warnings, name)

\* The warnings parse_functional_pseudo_class makes.
FunctionalPseudoClassWarned(parser, name, arguments) ==
  FunctionalPseudoClassWarnings(Warnings(<<>>), parser.css_modules, name,
                                ParseSelectorList(parser, arguments, FALSE),
                                SelectorParse(parser, arguments, TRUE)).list

\* A pseudo-class without arguments.
SimplePseudoClassOf(tree_structural, name, after_pseudo_element) ==
  IF tree_structural # {} /\ ~after_pseudo_element
  THEN CHOOSE c \in tree_structural : TRUE
  ELSE parse_non_ts_pseudo_class(name)

\* The warnings made for it: the tree-structural names do not reach
\* parse_non_ts_pseudo_class.
SimplePseudoClassWarned(tree_structural, name, after_pseudo_element) ==
  IF tree_structural # {} /\ ~after_pseudo_element THEN <<>>
  ELSE PseudoClassWarnings(Warnings(<<>>), name).list

FunctionalThen(parser, text, functional, warned, next, allows_pseudos, after_pseudo_element) ==
  IF after_pseudo_element THEN Failed
  ELSE IF functional = <<>> THEN FailedAfter(warned)
  ELSE Warn(warned,
            Cons(functional, ParseSimples(parser, text, next, allows_pseudos, FALSE)))

\* The arms of parse_functional_pseudo_element: `::cue()` and
\* `::cue-region()` take Selector::parse on the arguments, which must hold
\* one selector and nothing else.
FunctionalElementOf(name, lower, arguments, list) ==
  IF lower \in {write_str("part"), write_str("slotted")} THEN <<>>
  ELSE IF lower \in {write_str("cue"), write_str("cue-region")}
  THEN IF ~list.ok \/ Len(list.out) # 1 THEN <<>>
       ELSE IF lower = write_str("cue") THEN <<CueFunction(list.out[1])>>
       ELSE <<CueRegionFunction(list.out[1])>>
  ELSE <<CustomFunctionPseudoElement(name, TokenListParse(arguments))>>

\* parse_functional_pseudo_element: the pseudo-element in a sequence, <<>>
\* when the arguments are rejected.  `::part()` and `::slotted()`, which the
\* grammar reads itself, are not among the texts of the model.
parse_functional_pseudo_element(parser, name, arguments) ==
  FunctionalElementOf(name, to_ascii_lowercase(name), Trim(arguments),
                      SelectorParse(parser, arguments, TRUE))

\* The sink after parse_functional_pseudo_element: `::cue()` and
\* `::cue-region()` leave the warnings of the callbacks on their selector,
\* the default arm warns of the name before the arguments are read.
FunctionalPseudoElementWarnings(options_warnings, name, selector) ==
  IF to_ascii_lowercase(name) \in {write_str("cue"), write_str("cue-region")}
  THEN WarnAll(options_warnings, selector.warned)
  ELSE WarnUnsupported(options_warnings, name)

\* The warnings parse_functional_pseudo_element makes.
FunctionalPseudoElementWarned(parser, name, arguments) ==
  FunctionalPseudoElementWarnings(Warnings(<<>>), name,
                                  SelectorParse(parser, arguments, TRUE)).list

FunctionalElementThen(parser, text, functional, warned, next, allows_pseudos) ==
  IF functional = <<>> THEN FailedAfter(warned)
  ELSE Warn(warned,
            Cons(<<Combinator("PseudoElement")>> \o functional,
                 ParseSimples(parser, text, next, allows_pseudos, TRUE)))

\* The pseudo-class is refused behind a pseudo-element after
\* parse_non_ts_pseudo_class has read, and warned of, its name.
PseudoClassThen(parser, text, pseudo_class, warned, next, allows_pseudos, after_pseudo_element) ==
  IF after_pseudo_element /\ ~is_user_action_state(pseudo_class) THEN FailedAfter(warned)
  ELSE Warn(warned,
            Cons(<<pseudo_class>>,
                 ParseSimples(parser, text, next, allows_pseudos, after_pseudo_element)))

\* The arm of parse_one_simple_selector for a colon, the name being
\* text[start .. e - 1].
PseudoNamed(parser, text, is_single_colon, name, e, close, allows_pseudos, after_pseudo_element) ==
  IF name = <<>> THEN Failed
  ELSE IF ~is_single_colon \/ is_css2_pseudo_element(name)
  THEN IF ~allows_pseudos \/ after_pseudo_element THEN Failed
       ELSE IF At(text, e) = "("
       THEN FunctionalElementThen(parser, text,
                                  parse_functional_pseudo_element(
                                    parser, name, SubSeq(text, e + 1, close - 1)),
                                  FunctionalPseudoElementWarned(
                                    parser, name, SubSeq(text, e + 1, close - 1)),
                                  close + 1, allows_pseudos)
       ELSE Warn(PseudoElementWarnings(Warnings(<<>>), name).list,
                 Cons(<<Combinator("PseudoElement"), parse_pseudo_element(name)>>,
                      ParseSimples(parser, text, e, allows_pseudos, TRUE)))
  ELSE IF At(text, e) = "("
  THEN FunctionalThen(parser, text,
                      parse_functional_pseudo_class(parser, name,
                                                    SubSeq(text, e + 1, close - 1)),
                      FunctionalPseudoClassWarned(parser, name,
                                                  SubSeq(text, e + 1, close - 1)),
                      close + 1, allows_pseudos, after_pseudo_element)
  ELSE PseudoClassThen(parser, text,
                       SimplePseudoClassOf(Lookup(TreeStructuralNames, name), name,
                                           after_pseudo_element),
                       SimplePseudoClassWarned(Lookup(TreeStructuralNames, name), name,
                                               after_pseudo_element),
                       e, allows_pseudos, after_pseudo_element)

PseudoAt(parser, text, is_single_colon, start, e, allows_pseudos, after_pseudo_element) ==
  PseudoNamed(parser, text, is_single_colon, SubSeq(text, start, e - 1), e,
              BlockEnd(text, e + 1, 0), allows_pseudos, after_pseudo_element)

PseudoFrom(parser, text, is_single_colon, start, allows_pseudos, after_pseudo_element) ==
  PseudoAt(parser, text, is_single_colon, start, IdentEnd(text, start), allows_pseudos,
           after_pseudo_element)

ParsePseudo(parser, text, pos, allows_pseudos, after_pseudo_element) ==
  IF At(text, pos + 1) # ":"
  THEN PseudoFrom(parser, text, TRUE, pos + 1, allows_pseudos, after_pseudo_element)
  ELSE PseudoFrom(parser, text, FALSE, pos + 2, allows_pseudos, after_pseudo_element)

\* parse_selector behind a compound: the combinator and the compounds that
\* follow it, up to the end of the input.
CombinatorAt(parser, text, compound, next, allows_pseudos) ==
  IF ~compound.ok THEN FailedAfter(compound.warned)
  ELSE IF next > Len(text) THEN Warn(compound.warned, Parsed(next, compound.out))
  ELSE IF compound.has_pseudo_element THEN FailedAfter(compound.warned)
  ELSE IF text[next] \in {">", "+", "~"}
  THEN Warn(compound.warned,
            Cons(compound.out
                   \o <<Combinator(IF text[next] = ">" THEN "Child"
                                   ELSE IF text[next] = "+" THEN "NextSibling"
                                   ELSE "LaterSibling")>>,
                 parse_selector(parser, text, next + 1, allows_pseudos)))
  ELSE IF next > compound.pos
  THEN Warn(compound.warned,
            Cons(compound.out \o <<Combinator("Descendant")>>,
                 parse_selector(parser, text, next, allows_pseudos)))
  ELSE FailedAfter(compound.warned)

AfterCompound(parser, text, compound, allows_pseudos) ==
  CombinatorAt(parser, text, compound,
               IF compound.ok THEN skip_whitespace(text, compound.pos) ELSE 0,
               allows_pseudos)

\* parse_selector: the components in parse order.
parse_selector(parser, text, pos, allows_pseudos) ==
  AfterCompound(parser, text, parse_compound_selector(parser, text, pos, allows_pseudos),
                allows_pseudos)

\* The warnings of a list: the selectors are read in order, and none is
\* read behind the first that is rejected.
RECURSIVE ListWarned(_, _)
ListWarned(parsed, i) ==
  IF i > Len(parsed) THEN <<>>
  ELSE IF ~parsed[i].ok THEN parsed[i].warned
  ELSE parsed[i].warned \o ListWarned(parsed, i + 1)

ListOf(text, parsed) ==
  IF \A i \in 1..Len(parsed) : parsed[i].ok
  THEN Warn(ListWarned(parsed, 1),
            Parsed(Len(text) + 1, [i \in 1..Len(parsed) |-> BuildSelector(parsed[i].out)]))
  ELSE FailedAfter(ListWarned(parsed, 1))

ParsePieces(parser, pieces, allows_pseudos) ==
  [i \in 1..Len(pieces) |-> parse_selector(parser, pieces[i], 1, allows_pseudos)]

\* SelectorList::parse: out is the list, each selector in match order.
ParseSelectorList(parser, text, allows_pseudos) ==
  ListOf(text, ParsePieces(parser, SplitCommas(text, 1, 0, <<>>), allows_pseudos))

\* SelectorList::parse_with_options
parse_with_options(text, options_nesting, options_css_modules) ==
  ParseSelectorList(SelectorParser(options_nesting, options_css_modules), text, TRUE)

----------------------------------------------------------------------------
(* The inputs: selectors built from a set of simple selectors and a set of *)
(* combinators, as the parser stores them.                                 *)

MaxLen == 3        \* components (combinators included) of one selector
MaxBranchLen == 1  \* components of each selector of a two-selector list

a == <<"a">>
b == <<"b">>
div == <<"d", "i", "v">>

IsTypeComponent(c) == c.kind \in {"LocalName", "ExplicitUniversalType"}

\* What the parser can have stored: a type selector opens its compound, a
\* pseudo-element is the rightmost compound and sits behind its marker, a
\* combinator stands between two compounds.
IsNamespaceComponent(c) ==
  c.kind \in {"ExplicitAnyNamespace", "ExplicitNoNamespace", "Namespace",
              "DefaultNamespace"}

\* Component i opens its compound, or follows the & that opens it.
StartsCompound(s, i) ==
  \/ i = 1
  \/ is_combinator(s[i - 1])
  \/ s[i - 1].kind = "Nesting" /\ (i = 2 \/ is_combinator(s[i - 2]))

WellFormedSelector(s) ==
  /\ Len(s) >= 1
  /\ ~IsTreeCombinator(s[1])
  /\ ~IsTreeCombinator(s[Len(s)])
  /\ \A i \in 1..Len(s) :
       /\ IsTypeComponent(s[i]) =>
            (StartsCompound(s, i) \/ IsNamespaceComponent(s[i - 1]))
       /\ IsNamespaceComponent(s[i]) =>
            (StartsCompound(s, i) /\ i < Len(s) /\ IsTypeComponent(s[i + 1]))
       /\ (is_combinator(s[i]) /\ i > 1) => ~is_combinator(s[i - 1])
       /\ s[i].kind = "PseudoElement" =>
            (i = 1 /\ Len(s) >= 2 /\ s[2] = Combinator("PseudoElement"))
       /\ s[i] = Combinator("PseudoElement") => (i = 2 /\ s[1].kind = "PseudoElement")

SelectorsUpTo(components, n) ==
  {s \in UNION {[1..k -> components] : k \in 1..n} : WellFormedSelector(s)}

\* Lists of one selector, and lists of two short selectors.
ListsOver(components) ==
  {<<s>> : s \in SelectorsUpTo(components, MaxLen)}
    \cup {<<s, t>> : s \in SelectorsUpTo(components, MaxBranchLen),
                     t \in SelectorsUpTo(components, MaxBranchLen)}

\* No command line is running.
NoSink ==
  /\ error_recovery = FALSE
  /\ threads = <<>>
  /\ lock = {}
  /\ holders = 0
  /\ drained = <<>>

NoCommandLine == NoSink /\ css_modules = FALSE

\* The variables an operation does not use.
Idle ==
  /\ other = <<>>
  /\ targets = NoTargets
  /\ unused_symbols = {}
  /\ parent_is_unused = FALSE
  /\ input = <<>>
  /\ css = <<>>
  /\ first_css = <<>>
  /\ minify = FALSE
  /\ vendor_prefix = VP_empty
  /\ style_context = <<>>
  /\ first_tree = <<>>
  /\ ret = "none"
  /\ warnings = NoWarnings
  /\ css_module = NoCssModule /\ NoCommandLine
  /\ op = "init"

----------------------------------------------------------------------------
(* is_equivalent, as the stylesheet engine calls it on two selector lists. *)

EquivComponents ==
  {Class(a), Class(b), PseudoClass("Hover"),
   PrefixedPseudoClass("AnyLink", VP_None), PrefixedPseudoClass("AnyLink", VP_WebKit),
   PrefixedPseudoElement("Placeholder", VP_None), PrefixedPseudoElement("Placeholder", VP_Moz),
   Is(<<<<PrefixedPseudoClass("AnyLink", VP_None)>>>>),
   Is(<<<<PrefixedPseudoClass("AnyLink", VP_WebKit)>>>>),
   Combinator("Descendant"), Combinator("PseudoElement")}

EquivLists == ListsOver(EquivComponents)

\* The lists a list is compared with.
EquivOthers ==
  {<<s>> : s \in SelectorsUpTo(EquivComponents \ {Class(b), PseudoClass("Hover")}, 2)}
    \cup {<<<<Class(a)>>, <<PrefixedPseudoClass("AnyLink", VP_None)>>>>,
          <<<<Class(b), Combinator("Descendant"), Class(a)>>>>,
          <<<<Class(b), Combinator("Descendant"), Class(b)>>>>}

InitEquiv == selectors \in EquivLists /\ Idle

CallIsEquivalent ==
  /\ op = "init"
  /\ \E o \in EquivOthers \cup {selectors} :
       /\ other' = o
       /\ ret' = is_equivalent(selectors, o)
  /\ op' = "is_equivalent"
  /\ UNCHANGED <<sink_vars, css_module, warnings, selectors, targets, unused_symbols, parent_is_unused,
                 input, css, first_css, first_tree,
                 minify, vendor_prefix, style_context>>

NextEquiv == CallIsEquivalent

SpecEquiv == InitEquiv /\ [][NextEquiv]_vars


\* C4: is_equivalent(t, t) returns true for every selector list t.
C4_EquivalenceReflexive ==
  (op = "is_equivalent" /\ other = selectors) => ret = TRUE

\* A list of two compounds with a vendor-prefixed pseudo-class was compared
\* with itself.
C4_Witness ==
  /\ op = "is_equivalent"
  /\ other = selectors
  /\ selectors = <<<<PrefixedPseudoClass("AnyLink", VP_WebKit), Combinator("Descendant"), Class(a)>>>>

\* A component with the vendor prefix of a prefixable pseudo forgotten, at
\* every depth.
RECURSIVE WithoutPrefixes(_)
WithoutPrefixes(sels) ==
  [i \in 1..Len(sels) |->
    [j \in 1..Len(sels[i]) |->
      LET c == sels[i][j] IN
        [c EXCEPT
          !.vp = IF \/ c.kind = "NonTSPseudoClass" /\ c.sub \in PrefixablePseudoClasses
                    \/ c.kind = "PseudoElement" /\ c.sub \in PrefixablePseudoElements
                 THEN {} ELSE @,
          !.list = WithoutPrefixes(@)]]]

\* C5: is_equivalent(a, b) is true exactly when a and b have the same
\* selectors, component by component across every compound, up to the vendor
\* prefixes of prefixable pseudos, those inside nested lists included.
C5_EquivalentIffSameModuloPrefixes ==
  op = "is_equivalent" =>
    (ret = TRUE <=> WithoutPrefixes(selectors) = WithoutPrefixes(other))


----------------------------------------------------------------------------
(* get_prefix, as the stylesheet engine calls it on the selectors of a     *)
(* style rule.                                                             *)

en == <<"e", "n">>

PrefixComponents ==
  {Class(a), PseudoClass("Hover"), Is(<<<<Class(a)>>>>), Lang(<<en>>),
   PrefixedPseudoClass("Fullscreen", VP_None), PrefixedPseudoClass("Fullscreen", VP_WebKit),
   PrefixedPseudoElement("Placeholder", VP_Moz),
   ComponentAny(VP_WebKit, <<<<Class(a)>>>>),
   Combinator("Descendant"), Combinator("PseudoElement")}

PrefixLists == ListsOver(PrefixComponents)

InitPrefix == selectors \in PrefixLists /\ Idle

CallGetPrefix ==
  /\ op = "init"
  /\ ret' = get_prefix(selectors)
  /\ op' = "get_prefix"
  /\ UNCHANGED <<sink_vars, css_module, warnings, selectors, other, targets, unused_symbols, parent_is_unused,
                 input, css, first_css, first_tree,
                 minify, vendor_prefix, style_context>>

NextPrefix == CallGetPrefix

SpecPrefix == InitPrefix /\ [][NextPrefix]_vars

\* The components of a list at the top level of its selectors.
TopComponents(sels) == UNION {Range(sels[i]) : i \in 1..Len(sels)}

\* :is, :where, :has, :not, :lang or :dir at the top level of a selector.
IsNoneForcing(c) ==
  \/ c.kind \in {"Is", "Where", "Has", "Negation"}
  \/ c.kind = "NonTSPseudoClass" /\ c.sub \in {"Lang", "Dir"}

\* A prefixable pseudo or :-*-any whose prefix is a vendor's.
CarriesVendorPrefix(c) ==
  /\ \/ c.kind = "NonTSPseudoClass" /\ c.sub \in PrefixablePseudoClasses
     \/ c.kind = "PseudoElement" /\ c.sub \in PrefixablePseudoElements
     \/ c.kind = "Any"
  /\ c.vp \notin {VP_empty, VP_None}

\* C6 as stated: with a list-bearing composite or :lang / :dir at the top
\* level of a selector, get_prefix returns None whatever else the list holds.
C6_NoneWheneverComposite ==
  (op = "get_prefix" /\ \E c \in TopComponents(selectors) : IsNoneForcing(c))
    => ret = VP_None

\* C6 amended: with such a component get_prefix returns None when no component
\* carries a vendor's prefix, and the empty set when one does.
C6_NoneUnlessVendorPrefixed ==
  (op = "get_prefix" /\ \E c \in TopComponents(selectors) : IsNoneForcing(c))
    => ret = IF \E c \in TopComponents(selectors) : CarriesVendorPrefix(c)
             THEN VP_empty ELSE VP_None

\* :is(.a) beside an unprefixed :fullscreen gave None.
C6_Witness ==
  /\ op = "get_prefix"
  /\ selectors = <<<<Is(<<<<Class(a)>>>>), PrefixedPseudoClass("Fullscreen", VP_None)>>>>
  /\ ret = VP_None

\* The prefix a component carries: its own when it is a prefixable pseudo or
\* :-*-any, None when it is a list-bearing composite, :lang or :dir.
CarriedPrefix(c) ==
  IF IsNoneForcing(c) THEN VP_None
  ELSE IF \/ c.kind = "NonTSPseudoClass" /\ c.sub \in PrefixablePseudoClasses
          \/ c.kind = "PseudoElement" /\ c.sub \in PrefixablePseudoElements
          \/ c.kind = "Any"
       THEN c.vp
       ELSE VP_empty

\* C7: get_prefix returns the one prefix every prefix-carrying component uses,
\* and the empty set when none carries a prefix or two carry different ones;
\* the result is a value some component carried, or empty.
C7_SinglePrefixOrEmpty ==
  op = "get_prefix" =>
    LET carried == {CarriedPrefix(c) : c \in TopComponents(selectors)} \ {VP_empty} IN
      ret = IF Cardinality(carried) = 1 THEN CHOOSE p \in carried : TRUE ELSE VP_empty

\* Two selectors that both carry WebKit gave WebKit.
C7_Witness ==
  /\ op = "get_prefix"
  /\ selectors = <<<<PrefixedPseudoClass("Fullscreen", VP_WebKit)>>,
                   <<ComponentAny(VP_WebKit, <<<<Class(a)>>>>)>>>>
  /\ ret = VP_WebKit

----------------------------------------------------------------------------
(* is_compatible, as the stylesheet engine calls it on the selectors of a  *)
(* style rule with the targets of the build.                               *)

NoPrefixes == [f \in PrefixFeatures |-> VP_empty]

CompatFeatures == {"CssSel2", "CssSel3", "CssMatchesPseudo"}

\* No targets, and the target sets that support some of the features.
CompatTargets ==
  {NoTargets} \cup {Browsers(S, NoPrefixes) : S \in SUBSET CompatFeatures}

CompatComponents ==
  {Class(a), LocalName(div), PseudoClass("Hover"), Root,
   Is(<<<<Class(a)>>>>), Where(<<<<Class(a)>>>>), PseudoElement("Before"),
   Combinator("Descendant"), Combinator("Child"), Combinator("PseudoElement")}

CompatLists == ListsOver(CompatComponents)

InitCompat == selectors \in CompatLists /\ Idle

CallIsCompatible ==
  /\ op = "init"
  /\ \E t \in CompatTargets :
       /\ targets' = t
       /\ ret' = is_compatible(selectors, t)
  /\ op' = "is_compatible"
  /\ UNCHANGED <<sink_vars, css_module, warnings, selectors, other, unused_symbols, parent_is_unused,
                 input, css, first_css, first_tree,
                 minify, vendor_prefix, style_context>>

NextCompat == CallIsCompatible

SpecCompat == InitCompat /\ [][NextCompat]_vars

\* C8: is_compatible returns false exactly when some component, in any
\* compound of any selector of the list, needs a feature the targets do not
\* support; IDs, classes and local names need none, and without targets every
\* component that maps to a feature is unsupported.
C8_FalseIffSomeComponentUnsupported ==
  op = "is_compatible" =>
    (ret = FALSE <=>
       \E i \in 1..Len(selectors) :
         \E j \in 1..Len(iter_raw_match_order(selectors[i])) :
           ~ComponentPasses(iter_raw_match_order(selectors[i])[j], targets))

----------------------------------------------------------------------------
(* is_unused, as the stylesheet engine calls it on the selectors of a      *)
(* style rule with the unused symbols of the build.                        *)

UnusedComponents ==
  {Class(a), Class(b), ID(a), Nesting, PseudoClass("Hover"),
   Is(<<<<Class(a)>>>>), Where(<<<<Nesting>>>>), ComponentAny(VP_WebKit, <<<<Class(b)>>, <<ID(a)>>>>),
   Negation(<<<<Class(a)>>>>), Combinator("Descendant")}

UnusedLists == ListsOver(UnusedComponents)

UnusedSymbolSets == {{}, {a}, {b}, {a, b}}

InitUnused == selectors \in UnusedLists /\ Idle

CallIsUnused ==
  /\ op = "init"
  /\ \E symbols \in UnusedSymbolSets, parent_unused \in BOOLEAN :
       /\ unused_symbols' = symbols
       /\ parent_is_unused' = parent_unused
       /\ ret' = is_unused(selectors, symbols, parent_unused)
  /\ op' = "is_unused"
  /\ UNCHANGED <<sink_vars, css_module, warnings, selectors, other, targets, input, css, first_css, first_tree,
                 minify, vendor_prefix, style_context>>

NextUnused == CallIsUnused

SpecUnused == InitUnused /\ [][NextUnused]_vars

\* Every selector of the list holds a class or id named in the symbols, an
\* :is / :where / :-*-any whose inner list is unused in the same sense, or a
\* Nesting component while the parent is unused.
RECURSIVE EverySelectorHasUnusedSymbol(_, _, _)
EverySelectorHasUnusedSymbol(sels, symbols, parent_unused) ==
  \A i \in 1..Len(sels) :
    \E j \in 1..Len(sels[i]) :
      LET c == sels[i][j] IN
        \/ c.kind \in {"Class", "ID"} /\ c.name \in symbols
        \/ /\ c.kind \in {"Is", "Where", "Any"}
           /\ EverySelectorHasUnusedSymbol(c.list, symbols, parent_unused)
        \/ c.kind = "Nesting" /\ parent_unused

\* C9 as stated: is_unused returns true exactly when every selector holds an
\* unused class or id, an unused :is / :where / :-*-any, or Nesting under an
\* unused parent.
C9_UnusedIffEverySelectorHasSymbol ==
  op = "is_unused" =>
    (ret = TRUE <=> EverySelectorHasUnusedSymbol(selectors, unused_symbols, parent_is_unused))

\* C9 amended: is_unused returns false when unused_symbols is empty, and
\* otherwise true exactly when every selector holds an unused class or id, an
\* unused :is / :where / :-*-any, or Nesting under an unused parent.
C9_UnusedIffNonEmptyAndEverySelector ==
  op = "is_unused" =>
    (ret = TRUE <=>
       /\ unused_symbols # {}
       /\ EverySelectorHasUnusedSymbol(selectors, unused_symbols, parent_is_unused))

\* :is(.a) and & were both unused with a in the symbols and an unused parent.
C9_Witness ==
  /\ op = "is_unused"
  /\ selectors = <<<<Is(<<<<Class(a)>>>>)>>, <<Nesting>>>>
  /\ unused_symbols = {a}
  /\ parent_is_unused = TRUE
  /\ ret = TRUE

----------------------------------------------------------------------------
(* downlevel_selectors, as the stylesheet engine calls it on the selectors *)
(* of a style rule with the targets of the build.                          *)

fr == <<"f", "r">>

DownlevelComponents ==
  {Class(a), Dir(Rtl), Dir(Ltr), Lang(<<en, fr>>),
   Is(<<<<Class(a), Combinator("Child"), Class(a)>>>>),
   Negation(<<<<Dir(Rtl)>>>>), Where(<<<<Class(a)>>>>),
   PrefixedPseudoClass("Fullscreen", VP_None), Combinator("Descendant")}

DownlevelLists == ListsOver(DownlevelComponents)

\* Targets that support the selectors of levels 2 and 3, some of :dir(),
\* :lang() with a list and :is(), and that need no prefix or the WebKit and
\* Moz prefixes for :-*-any, the WebKit prefix for :fullscreen and the Moz
\* prefix for ::placeholder.
DownlevelTargets ==
  {Browsers({"CssSel2", "CssSel3"} \cup S,
            [NoPrefixes EXCEPT !["AnyPseudo"] = p,
                               !["PseudoClassFullscreen"] = VP_WebKit,
                               !["PseudoElementPlaceholder"] = VP_Moz]) :
     S \in SUBSET {"CssDirPseudo", "LangList", "CssMatchesPseudo"},
     p \in {VP_empty, VP_WebKit \cup VP_Moz}}

InitDownlevel == selectors \in DownlevelLists /\ Idle

CallDownlevelSelectors ==
  /\ op = "init"
  /\ \E t \in DownlevelTargets :
       LET r == downlevel_selectors(selectors, t) IN
         /\ targets' = t
         /\ first_tree' = selectors
         /\ selectors' = r.selectors
         /\ ret' = r.necessary_prefixes
  /\ op' = "downlevel_selectors"
  /\ UNCHANGED <<sink_vars, css_module, warnings, other, unused_symbols, parent_is_unused,
                 input, css, first_css,
                 minify, vendor_prefix, style_context>>

NextDownlevel == CallDownlevelSelectors

SpecDownlevel == InitDownlevel /\ [][NextDownlevel]_vars

\* The copy of a list emitted under one prefix: the unprefixed prefixable
\* pseudos take the prefix and :is() becomes :-webkit-any() / :-moz-any().
RECURSIVE PrefixedCopy(_, _)
PrefixedCopy(sels, p) ==
  IF p = VP_None THEN sels
  ELSE
    [i \in 1..Len(sels) |->
      [j \in 1..Len(sels[i]) |->
        LET c == sels[i][j] IN
          IF /\ \/ c.kind = "NonTSPseudoClass" /\ c.sub \in PrefixablePseudoClasses
                \/ c.kind = "PseudoElement" /\ c.sub \in PrefixablePseudoElements
             /\ c.vp = VP_None
          THEN [c EXCEPT !.vp = p]
          ELSE IF c.kind = "Is" /\ p \in {VP_WebKit, VP_Moz}
          THEN ComponentAny(p, PrefixedCopy(c.list, p))
          ELSE [c EXCEPT !.list = PrefixedCopy(@, p)]]]

\* C1 as stated: after downlevel_selectors the list is compatible with the
\* targets, or the returned prefix set is not empty and the copy of the list
\* under each returned prefix is compatible with the targets.
C1_DownlevelMonotonic ==
  op = "downlevel_selectors" =>
    \/ is_compatible(selectors, targets)
    \/ /\ ret # VP_empty
       /\ \A bit \in ret : is_compatible(PrefixedCopy(selectors, {bit}), targets)

\* No :dir() the targets do not support and no :lang() with a list the
\* targets do not support, in the selectors of a list and in the lists of
\* their :is, :where, :-*-any, :not and :has components.
RECURSIVE NoUnsupportedDirOrLangList(_, _)
NoUnsupportedDirOrLangList(sels, t) ==
  \A i \in 1..Len(sels) :
    \A j \in 1..Len(sels[i]) :
      LET c == sels[i][j] IN
        /\ (c.kind = "NonTSPseudoClass" /\ c.sub = "Dir")
             => FeatureIsCompatible("CssDirPseudo", t)
        /\ (c.kind = "NonTSPseudoClass" /\ c.sub = "Lang" /\ Len(c.args) > 1)
             => FeatureIsCompatible("LangList", t)
        /\ c.kind \in {"Is", "Where", "Any", "Negation", "Has"}
             => NoUnsupportedDirOrLangList(c.list, t)

\* C1 amended: after downlevel_selectors the list holds, at any depth of its
\* :is, :where, :-*-any, :not and :has lists, no :dir() and no :lang() with
\* a list that the targets do not support; the list need not be compatible
\* and the returned prefix set may be empty.
C1_DownlevelRemovesDirAndLangLists ==
  op = "downlevel_selectors" => NoUnsupportedDirOrLangList(selectors, targets)

\* The right-to-left languages as the specification lists them.
RtlLanguages ==
  <<write_str("ae"), write_str("ar"), write_str("arc"), write_str("bcc"),
    write_str("bqi"), write_str("ckb"), write_str("dv"), write_str("fa"),
    write_str("glk"), write_str("he"), write_str("ku"), write_str("mzn"),
    write_str("nqo"), write_str("pnb"), write_str("ps"), write_str("sd"),
    write_str("ug"), write_str("ur"), write_str("yi")>>

\* One selector `:lang(x)` per language, in the order of the languages.
OneLangEach(languages) ==
  [i \in 1..Len(languages) |-> <<Lang(<<languages[i]>>)>>]

\* What a :dir() component is to become for the targets.
DirDownleveled(c, t) ==
  IF FeatureIsCompatible("CssDirPseudo", t) THEN c
  ELSE IF FeatureIsCompatible("LangList", t)
  THEN IF c = Dir(Rtl) THEN Lang(RtlLanguages)
       ELSE Negation(<<<<Lang(RtlLanguages)>>>>)
  ELSE IF c = Dir(Rtl) THEN Is(OneLangEach(RtlLanguages))
       ELSE Negation(OneLangEach(RtlLanguages))

\* Every :dir() of the list `before`, at any depth of the lists of its :is,
\* :where, :-*-any, :not and :has components, stands in `after` as
\* DirDownleveled gives it.
RECURSIVE DirsDownleveled(_, _, _)
DirsDownleveled(before, after, t) ==
  /\ Len(after) = Len(before)
  /\ \A i \in 1..Len(before) :
       /\ Len(after[i]) = Len(before[i])
       /\ \A j \in 1..Len(before[i]) :
            LET c == before[i][j]
                d == after[i][j]
            IN  /\ (c.kind = "NonTSPseudoClass" /\ c.sub = "Dir")
                     => d = DirDownleveled(c, t)
                /\ c.kind \in {"Is", "Where", "Any", "Negation", "Has"}
                     => (d.kind = c.kind /\ DirsDownleveled(c.list, d.list, t))

\* C11: downlevel_selectors replaces :dir(rtl) by :lang() of the 19
\* right-to-left languages and :dir(ltr) by :not() of it when the targets
\* support :lang() lists, by :is() and :not() of one :lang() per language when
\* they do not, and leaves :dir() alone when the targets support it.
C11_DirDownleveled ==
  op = "downlevel_selectors" => DirsDownleveled(first_tree, selectors, targets)

\* :dir(ltr) became :not(:lang(ae), .., :lang(yi)) for targets without :dir()
\* and :lang() lists.
C11_Witness ==
  /\ op = "downlevel_selectors"
  /\ first_tree = <<<<Dir(Ltr)>>>>
  /\ ~FeatureIsCompatible("CssDirPseudo", targets)
  /\ ~FeatureIsCompatible("LangList", targets)
  /\ selectors = <<<<Negation(OneLangEach(RtlLanguages))>>>>

\* :dir(rtl) became :is(:lang(ae), .., :lang(yi)) for targets without :dir(),
\* :lang() lists and :is(), and the prefixes of :-*-any were returned.
C1_Witness ==
  /\ op = "downlevel_selectors"
  /\ selectors = <<<<Is(lang_list_to_selectors(RTL_LANGS))>>>>
  /\ ~FeatureIsCompatible("CssDirPseudo", targets)
  /\ ~FeatureIsCompatible("LangList", targets)
  /\ ~FeatureIsCompatible("CssMatchesPseudo", targets)
  /\ ret = VP_WebKit \cup VP_Moz

----------------------------------------------------------------------------
(* downlevel_selectors on lists with prefixable pseudos, :lang() and       *)
(* nested :is() and :not().                                                *)

MaxCompoundLen == 2  \* components of the one selector of a list

Fullscreen(p) == PrefixedPseudoClass("Fullscreen", p)

PrefixDownlevelComponents ==
  {Class(a), Lang(<<en>>), Lang(<<en, fr>>), Dir(Rtl),
   Fullscreen(VP_None), Fullscreen(VP_WebKit),
   PrefixedPseudoElement("Placeholder", VP_None),
   PrefixedPseudoElement("Placeholder", VP_Moz),
   Is(<<<<Fullscreen(VP_None)>>>>),
   Is(<<<<Class(a), Combinator("Child"), Fullscreen(VP_None)>>>>),
   Is(<<<<Class(a)>>, <<Class(a), Combinator("Descendant"), Class(a)>>>>),
   Is(<<<<Lang(<<en, fr>>)>>>>),
   Negation(<<<<Is(<<<<Fullscreen(VP_None)>>>>)>>>>),
   Combinator("Descendant"), Combinator("PseudoElement")}

PrefixDownlevelLists ==
  {<<s>> : s \in SelectorsUpTo(PrefixDownlevelComponents, MaxCompoundLen)}
    \cup {<<s, t>> : s \in SelectorsUpTo(PrefixDownlevelComponents, 1),
                     t \in SelectorsUpTo(PrefixDownlevelComponents, 1)}

InitDownlevelPrefixes == selectors \in PrefixDownlevelLists /\ Idle

NextDownlevelPrefixes == CallDownlevelSelectors

SpecDownlevelPrefixes == InitDownlevelPrefixes /\ [][NextDownlevelPrefixes]_vars

\* What a :lang() component is to become for the targets.
LangDownleveled(c, t) ==
  IF Len(c.args) > 1 /\ ~FeatureIsCompatible("LangList", t)
  THEN Is(OneLangEach(c.args))
  ELSE c

\* Every :lang() of the list `before`, at any depth of the lists of its :is,
\* :where, :-*-any, :not and :has components, stands in `after` as
\* LangDownleveled gives it.
RECURSIVE LangsDownleveled(_, _, _)
LangsDownleveled(before, after, t) ==
  /\ Len(after) = Len(before)
  /\ \A i \in 1..Len(before) :
       /\ Len(after[i]) = Len(before[i])
       /\ \A j \in 1..Len(before[i]) :
            LET c == before[i][j]
                d == after[i][j]
            IN  /\ (c.kind = "NonTSPseudoClass" /\ c.sub = "Lang")
                     => d = LangDownleveled(c, t)
                /\ c.kind \in {"Is", "Where", "Any", "Negation", "Has"}
                     => (d.kind = c.kind /\ LangsDownleveled(c.list, d.list, t))

IsLang(c) == c.kind = "NonTSPseudoClass" /\ c.sub = "Lang"

\* C12: downlevel_selectors replaces a :lang() of several languages, for
\* targets without :lang() lists, by :is() of one :lang() per language in
\* the order given, and the :is() is downleveled in turn: alone in its list
\* it returns the prefixes of :-*-any when the targets lack :is(), and no
\* prefix otherwise; any other :lang() is left as it is and returns no prefix.
C12_LangDownleveled ==
  op = "downlevel_selectors" =>
    /\ LangsDownleveled(first_tree, selectors, targets)
    /\ (Len(first_tree) = 1 /\ Len(first_tree[1]) = 1 /\ IsLang(first_tree[1][1])) =>
         ret = IF /\ selectors # first_tree
                  /\ ~FeatureIsCompatible("CssMatchesPseudo", targets)
               THEN prefixes_for("AnyPseudo", targets)
               ELSE VP_empty

\* `:lang(en, fr)` became `:is(:lang(en), :lang(fr))` and the prefixes of
\* :-*-any were returned.
C12_Witness ==
  /\ op = "downlevel_selectors"
  /\ first_tree = <<<<Lang(<<en, fr>>)>>>>
  /\ selectors = <<<<Is(<<<<Lang(<<en>>)>>, <<Lang(<<fr>>)>>>>)>>>>
  /\ ret = VP_WebKit \cup VP_Moz

\* The list holds one selector of one component, an :is().
LoneIs(sels) == Len(sels) = 1 /\ Len(sels[1]) = 1 /\ sels[1][1].kind = "Is"

CombinatorFree(selector) ==
  \A i \in 1..Len(selector) :
    ~(selector[i].kind = "Combinator"
        /\ selector[i].sub \in {"Child", "Descendant", "NextSibling", "LaterSibling"})

\* C13: for an :is() component downlevel_selectors returns what the list of
\* the :is() returns, joined with the prefixes of :-*-any exactly when the
\* targets lack :is() and no selector of the list has a combinator.
C13_IsAddsAnyPrefixes ==
  (op = "downlevel_selectors" /\ LoneIs(first_tree)) =>
    LET list == first_tree[1][1].list
        children == downlevel_selectors(list, targets)
    IN  /\ selectors = <<<<Is(children.selectors)>>>>
        /\ ret = children.necessary_prefixes \cup
                   (IF /\ ~FeatureIsCompatible("CssMatchesPseudo", targets)
                       /\ \A i \in 1..Len(list) : CombinatorFree(list[i])
                    THEN prefixes_for("AnyPseudo", targets)
                    ELSE VP_empty)

\* `:is(.a > :fullscreen)` for targets without :is() that need prefixes for
\* :-*-any: only the prefix of :fullscreen was returned.
C13_Witness ==
  /\ op = "downlevel_selectors"
  /\ first_tree = <<<<Is(<<<<Class(a), Combinator("Child"), Fullscreen(VP_None)>>>>)>>>>
  /\ ~FeatureIsCompatible("CssMatchesPseudo", targets)
  /\ prefixes_for("AnyPseudo", targets) = VP_WebKit \cup VP_Moz
  /\ ret = VP_WebKit

\* What one component adds to the prefixes downlevel_selectors returns: the
\* prefixes its feature requires for an unprefixed prefixable pseudo, the
\* prefixes of :-*-any for an :is() as C13 has it, nothing otherwise.
OwnContribution(c, t) ==
  IF c.kind = "NonTSPseudoClass" /\ c.sub \in PrefixablePseudoClasses
  THEN IF c.vp = VP_None THEN t.prefixes["PseudoClass" \o c.sub] ELSE VP_empty
  ELSE IF c.kind = "PseudoElement" /\ c.sub \in PrefixablePseudoElements
  THEN IF c.vp = VP_None THEN t.prefixes["PseudoElement" \o c.sub] ELSE VP_empty
  ELSE IF /\ c.kind = "Is"
          /\ ~FeatureIsCompatible("CssMatchesPseudo", t)
          /\ \A i \in 1..Len(c.list) : CombinatorFree(c.list[i])
  THEN t.prefixes["AnyPseudo"]
  ELSE VP_empty

\* The union of the contributions of the components of a list and, at any
\* depth, of the lists of its :is, :where, :-*-any, :not and :has components.
RECURSIVE Contributions(_, _)
Contributions(sels, t) ==
  UNION {UNION {OwnContribution(sels[i][j], t)
                  \cup (IF sels[i][j].kind \in {"Is", "Where", "Any", "Negation", "Has"}
                        THEN Contributions(sels[i][j].list, t)
                        ELSE VP_empty) :
                j \in 1..Len(sels[i])} :
         i \in 1..Len(sels)}

\* C14: the value downlevel_selectors returns is the union of the
\* contributions of the components of the list as it leaves it, nested ones
\* included: an unprefixed prefixable pseudo contributes the prefixes of its
\* feature, a prefixed one and every other component that holds no list
\* contribute nothing.
C14_ReturnsUnionOfContributions ==
  op = "downlevel_selectors" => ret = Contributions(selectors, targets)

\* `:-webkit-full-screen, :is(:fullscreen)` for targets with :is(): the
\* WebKit prefix of the nested unprefixed :fullscreen was returned.
C14_Witness ==
  /\ op = "downlevel_selectors"
  /\ first_tree = <<<<Fullscreen(VP_WebKit)>>, <<Is(<<<<Fullscreen(VP_None)>>>>)>>>>
  /\ FeatureIsCompatible("CssMatchesPseudo", targets)
  /\ prefixes_for("AnyPseudo", targets) = VP_WebKit \cup VP_Moz
  /\ ret = VP_WebKit

----------------------------------------------------------------------------
(* Serialization of a selector list: SelectorList::to_css.                 *)

ns == <<"n", "s">>
url == <<"u">>

SerializeComponents ==
  {Class(a), LocalName(div), ExplicitUniversalType, ExplicitAnyNamespace,
   Namespace(ns), DefaultNamespace(url), Nesting, PseudoElement("Before"),
   Combinator("Child"), Combinator("PseudoElement")}

SerializeLists == ListsOver(SerializeComponents)

\* The printers of the serialization: without targets, with targets that
\* support CssNesting and with targets that do not; without a StyleContext
\* and inside the rule of `.a`.
InitSerialize ==
  /\ selectors \in SerializeLists
  /\ targets \in {NoTargets, Browsers({"CssNesting"}, NoPrefixes),
                  Browsers({}, NoPrefixes)}
  /\ style_context \in {<<>>, <<<<<<Class(a)>>>>>>}
  /\ other = <<>> /\ unused_symbols = {} /\ parent_is_unused = FALSE
  /\ input = <<>> /\ css = <<>> /\ first_css = <<>> /\ minify = FALSE
  /\ vendor_prefix = VP_empty /\ first_tree = <<>> /\ ret = "none" /\ op = "init"
  /\ warnings = NoWarnings
  /\ css_module = NoCssModule /\ NoCommandLine

ToCss ==
  /\ op = "init"
  /\ \E m \in BOOLEAN :
       /\ minify' = m
       /\ css' = SelectorListToCss(selectors,
                                   Printer(m, targets, vendor_prefix, style_context))
  /\ op' = "to_css"
  /\ UNCHANGED <<sink_vars, css_module, warnings, selectors, other, targets, unused_symbols, parent_is_unused,
                 input, first_css, first_tree, vendor_prefix, style_context, ret>>

NextSerialize == ToCss

SpecSerialize == InitSerialize /\ [][NextSerialize]_vars

CountStars(text) == Cardinality({i \in 1..Len(text) : text[i] = "*"})

\* The `*` of the any-namespace prefixes `*|` of a list.
AnyNamespaceStars(sels) ==
  Cardinality(UNION {{<<i, j>> : j \in {k \in 1..Len(sels[i]) :
                                          sels[i][k].kind = "ExplicitAnyNamespace"}} :
                     i \in 1..Len(sels)})

HasStar(compound) ==
  \E i \in 1..Len(compound) : compound[i].kind = "ExplicitUniversalType"

ExplicitPrefix(compound) ==
  \E i \in 1..Len(compound) :
    compound[i].kind \in {"ExplicitAnyNamespace", "ExplicitNoNamespace", "Namespace"}

\* Nothing but `*` and its namespace prefix.
OnlyStar(compound) ==
  /\ HasStar(compound)
  /\ \A i \in 1..Len(compound) :
       compound[i].kind = "ExplicitUniversalType" \/ IsNamespaceComponent(compound[i])

\* The compounds whose `*` the claim keeps: <<i, j>> is compound j, in
\* match order, of selector i.
StarsKeptAsStated(sels) ==
  UNION {{<<i, j>> : j \in {k \in 1..Len(Split(sels[i], 1, <<>>)) :
                              LET compound == Split(sels[i], 1, <<>>)[k] IN
                                /\ HasStar(compound)
                                /\ ExplicitPrefix(compound) \/ OnlyStar(compound)}} :
         i \in 1..Len(sels)}

\* C10 as stated: a `*` beside other simple selectors is written only behind
\* an explicit namespace prefix, and a compound that is only `*` always
\* writes it; so the text holds one `*` per such compound (and one per `*|`).
C10_UniversalElision ==
  op = "to_css" =>
    CountStars(css) = AnyNamespaceStars(selectors) + Cardinality(StarsKeptAsStated(selectors))

\* The compounds whose `*` is kept: behind an explicit namespace prefix; or
\* only `*` (after the & that opens the selector, if any) and not followed by
\* the marker of a pseudo-element or of ::slotted(); or behind the & that
\* opens the selector when the targets lack CssNesting.
StarsKept(sels, lacks_nesting) ==
  UNION {{<<i, j>> : j \in {k \in 1..Len(Split(sels[i], 1, <<>>)) :
       LET compounds == Split(sels[i], 1, <<>>)
           combinators == SelectSeq(sels[i], is_combinator)
           compound == compounds[k]
           leading == k = Len(compounds) /\ compound # <<>> /\ compound[1].kind = "Nesting"
           marked == k > 1 /\ combinators[k - 1].sub \in {"PseudoElement", "SlotAssignment"}
       IN  /\ HasStar(compound)
           /\ \/ ExplicitPrefix(compound)
              \/ OnlyStar(IF leading THEN Tail(compound) ELSE compound) /\ ~marked
              \/ leading /\ lacks_nesting}} :
         i \in 1..Len(sels)}

\* C10 amended: a `*` beside other simple selectors is written only behind an
\* explicit namespace prefix; a compound that is only `*` writes it unless a
\* pseudo-element follows it (`*::before` gives `:before`); the `*` that
\* stands alone behind the & opening the selector is written (`&*`); and for
\* targets without CssNesting every `*` behind the & opening the selector is
\* written (`&*.a` gives `*:scope.a`), whatever the StyleContext.
C10_UniversalElisionExceptBeforePseudoElement ==
  op = "to_css" =>
    CountStars(css) =
      AnyNamespaceStars(selectors)
        + Cardinality(StarsKept(selectors,
                                targets.some /\ ~FeatureIsCompatible("CssNesting", targets)))

\* `*.a` was written as `.a`.
C10_Witness ==
  /\ op = "to_css"
  /\ selectors = <<<<ExplicitUniversalType, Class(a)>>>>
  /\ css = <<".", "a">>

----------------------------------------------------------------------------
(* Parsing a selector text, printing the tree, and parsing and printing    *)
(* the printed text again, with nesting enabled in the parser options,     *)
(* minify = false and no targets.                                          *)

TextPrefixes == {"", ".b", "div", "*", "&", ":lang(en)", ":not(.b)", "*|*"}

TextBodies ==
  {".a", ":HOVER", "::before", "::-ms-input-placeholder", ":is(.a)", ":is(div)",
   ":is(div.a)", ":is(.a, .b)", ":is(.a > .b)", ":where(div.a)", ":not(div.a)"}

TextSuffixes == {"", " > .a", " .a", ", .b"}

Texts ==
  {write_str(p \o t \o s) : p \in TextPrefixes, t \in TextBodies, s \in TextSuffixes}

RoundTripPrinter == Printer(FALSE, NoTargets, VP_empty, <<>>)

InitRoundTrip ==
  /\ input \in Texts
  /\ selectors = <<>>
  /\ other = <<>> /\ targets = NoTargets
  /\ unused_symbols = {} /\ parent_is_unused = FALSE
  /\ css = <<>> /\ first_css = <<>> /\ minify = FALSE /\ vendor_prefix = VP_empty
  /\ style_context = <<>> /\ first_tree = <<>> /\ ret = "none" /\ op = "init"
  /\ warnings = NoWarnings
  /\ css_module = NoCssModule /\ NoCommandLine

\* SelectorList::parse_with_options on the input text.
Parse ==
  /\ op = "init"
  /\ \E r \in {parse_with_options(input, TRUE, css_modules)} :
       /\ selectors' = r.out
       /\ warnings' = WarnAll(warnings, r.warned)
       /\ op' = IF r.ok THEN "parsed" ELSE "rejected"
  /\ UNCHANGED <<sink_vars, css_module, other, targets, unused_symbols, parent_is_unused, input, css,
                 first_css, first_tree, minify, vendor_prefix, style_context, ret>>

\* SelectorList::to_css on the parsed list.
Serialize ==
  /\ op = "parsed"
  /\ css' = SelectorListToCss(selectors, RoundTripPrinter)
  /\ op' = "serialized"
  /\ UNCHANGED <<sink_vars, css_module, warnings, selectors, other, targets, unused_symbols, parent_is_unused, input,
                 first_css, first_tree, minify, vendor_prefix, style_context, ret>>

\* SelectorList::parse_with_options on the printed text.
Reparse ==
  /\ op = "serialized"
  /\ \E r \in {parse_with_options(css, TRUE, css_modules)} :
       /\ first_tree' = selectors
       /\ selectors' = r.out
       /\ warnings' = WarnAll(warnings, r.warned)
       /\ op' = IF r.ok THEN "reparsed" ELSE "reparse_failed"
  /\ UNCHANGED <<sink_vars, css_module, other, targets, unused_symbols, parent_is_unused, input, css,
                 first_css, minify, vendor_prefix, style_context, ret>>

\* SelectorList::to_css on the list parsed from the printed text.
Reserialize ==
  /\ op = "reparsed"
  /\ first_css' = css
  /\ css' = SelectorListToCss(selectors, RoundTripPrinter)
  /\ op' = "reserialized"
  /\ UNCHANGED <<sink_vars, css_module, warnings, selectors, other, targets, unused_symbols, parent_is_unused, input,
                 first_tree, minify, vendor_prefix, style_context, ret>>

NextRoundTrip == Parse \/ Serialize \/ Reparse \/ Reserialize

SpecRoundTrip == InitRoundTrip /\ [][NextRoundTrip]_vars

\* C2: the text printed for an accepted selector text, with minify = false
\* and no targets, is accepted by the parser again and parses to a tree
\* structurally equal to the first one.
C2_RoundTrip ==
  /\ op # "reparse_failed"
  /\ op = "reparsed" => selectors = first_tree

\* C3: printing the tree parsed from the printed text of a tree gives the
\* same text again: serialize(parse(serialize(t))) = serialize(t).
C3_SerializationIdempotent ==
  /\ op # "reparse_failed"
  /\ op = "reserialized" => css = first_css

----------------------------------------------------------------------------
(* A style rule with :is() or :not() in its selector: downlevel_selectors  *)
(* when the build has targets, then to_css once without a vendor-prefix    *)
(* override and once under each prefix downlevel_selectors returned.       *)

EmitComposites ==
  {Is(<<<<Class(a)>>>>), Is(<<<<Class(a)>>, <<Class(b)>>>>),
   Is(<<<<LocalName(div)>>>>), Is(<<<<LocalName(div), Class(a)>>>>),
   Is(<<<<Class(b), Combinator("Child"), Class(a)>>>>),
   Is(<<<<PseudoClass("Hover")>>>>),
   Negation(<<<<Class(a)>>>>), Negation(<<<<Class(a)>>, <<Class(b)>>>>),
   Negation(<<<<Class(a)>>, <<LocalName(div), Class(a)>>, <<PseudoClass("Hover")>>>>),
   Negation(<<<<Is(<<<<Class(a)>>, <<Class(b)>>>>)>>, <<Class(b)>>>>),
   Negation(<<<<Dir(Rtl)>>, <<Class(b)>>>>),
   Negation(<<<<Class(a)>>, <<Lang(<<write_str("en"), write_str("fr")>>)>>>>)}

EmitLists ==
  {<<<<c>>>> : c \in EmitComposites} \cup {<<<<Class(b), c>>>> : c \in EmitComposites}

\* No targets, or targets with some of :is() and :not() lists that need no
\* prefix, the WebKit prefix or the WebKit and Moz prefixes for :-*-any.
EmitTargets ==
  {NoTargets} \cup
    {Browsers(S, [NoPrefixes EXCEPT !["AnyPseudo"] = p]) :
       S \in SUBSET {"CssMatchesPseudo", "CssNotSelList"},
       p \in {VP_empty, VP_WebKit, VP_WebKit \cup VP_Moz}}

InitEmit ==
  /\ selectors \in EmitLists
  /\ targets \in EmitTargets
  /\ other = <<>> /\ unused_symbols = {} /\ parent_is_unused = FALSE
  /\ input = <<>> /\ css = <<>> /\ first_css = <<>> /\ minify = FALSE
  /\ vendor_prefix = VP_empty /\ style_context = <<>> /\ first_tree = <<>>
  /\ ret = VP_empty /\ op = "init"
  /\ warnings = NoWarnings
  /\ css_module = NoCssModule /\ NoCommandLine

\* downlevel_selectors with the targets of the build.
Downlevel ==
  /\ op = "init"
  /\ targets.some
  /\ \E r \in {downlevel_selectors(selectors, targets)} :
       /\ selectors' = r.selectors
       /\ ret' = r.necessary_prefixes
  /\ first_tree' = selectors
  /\ op' = "downlevel_selectors"
  /\ UNCHANGED <<sink_vars, css_module, warnings, other, targets, unused_symbols, parent_is_unused, input, css,
                 first_css, minify, vendor_prefix, style_context>>

\* SelectorList::to_css, with no override or with one of the prefixes
\* downlevel_selectors returned as the printer's vendor_prefix.
Emit ==
  /\ op \in {"init", "downlevel_selectors"}
  /\ \E m \in BOOLEAN, vp \in {VP_empty} \cup {{bit} : bit \in ret} :
       /\ minify' = m
       /\ vendor_prefix' = vp
       /\ css' = SelectorListToCss(selectors, Printer(m, targets, vp, style_context))
  /\ op' = "to_css"
  /\ UNCHANGED <<sink_vars, css_module, warnings, selectors, other, targets, unused_symbols, parent_is_unused, input,
                 first_css, first_tree, style_context, ret>>

NextEmit == Downlevel \/ Emit

SpecEmit == InitEmit /\ [][NextEmit]_vars

\* `:is(.a)` went through downlevel_selectors for targets without :is() that
\* need the WebKit prefix for :-*-any.
IsOfClassForWebKit ==
  /\ op \in {"downlevel_selectors", "to_css"}
  /\ first_tree = <<<<Is(<<<<Class(a)>>>>)>>>>
  /\ ~FeatureIsCompatible("CssMatchesPseudo", targets)
  /\ prefixes_for("AnyPseudo", targets) = VP_WebKit

\* C15 as stated: for `:is(.a)` and such targets downlevel_selectors returns
\* {WebKit}, to_css under the WebKit override writes `:-webkit-any(.a)` and
\* to_css without an override writes `.a`.
C15_IsAnyExample ==
  IsOfClassForWebKit =>
    /\ ret = VP_WebKit
    /\ op = "to_css" =>
         css = IF vendor_prefix = VP_WebKit THEN write_str(":-webkit-any(.a)")
               ELSE write_str(".a")

\* C15 amended: downlevel_selectors returns {WebKit}, and to_css writes `.a`
\* under the WebKit override as it does without an override.
C15_IsOfOneClassWrittenBare ==
  IsOfClassForWebKit =>
    /\ ret = VP_WebKit
    /\ op = "to_css" => css = write_str(".a")

\* `:is(.a)` was written under the WebKit override.
C15_Witness ==
  /\ IsOfClassForWebKit
  /\ op = "to_css"
  /\ vendor_prefix = VP_WebKit
  /\ css = write_str(".a")

NoTypeSelector(selector) ==
  \A i \in 1..Len(selector) :
    selector[i].kind \notin {"LocalName", "ExplicitUniversalType"}

\* The text C16 gives an :is() component.
IsAsStated(c, dest) ==
  IF /\ Len(c.list) = 1
     /\ NoTypeSelector(c.list[1])
     /\ CombinatorFree(c.list[1])
  THEN serialize_selector(c.list[1], dest, dest.context, FALSE)
  ELSE (IF VP_WebKit \subseteq dest.vendor_prefix THEN write_str(":-webkit-any(")
        ELSE IF VP_Moz \subseteq dest.vendor_prefix THEN write_str(":-moz-any(")
        ELSE write_str(":is("))
         \o serialize_selector_list(c.list, dest, dest.context, FALSE) \o <<")">>

\* C16: an :is() whose list is one selector with no type selector and no
\* combinator is written as that selector alone; any other :is() is written
\* as `:-webkit-any(..)` or `:-moz-any(..)` under such an override of the
\* printer and as `:is(..)` otherwise.  Stated for the :is() that ends the
\* compound of a one-selector list.
C16_IsCollapsedOnlyWithoutType ==
  (/\ op = "to_css"
   /\ Len(selectors) = 1
   /\ selectors[1][Len(selectors[1])].kind = "Is") =>
    LET s == selectors[1]
        dest == Printer(minify, targets, vendor_prefix, style_context)
    IN  css = (IF Len(s) > 1
               THEN SelectorListToCss(<<SubSeq(s, 1, Len(s) - 1)>>, dest)
               ELSE <<>>)
                \o IsAsStated(s[Len(s)], dest)

\* The text C17 gives a :not() component: one `:not(x)` per selector of the
\* list for targets without :not() lists, one `:not(x, y)` otherwise.
NotAsStated(c, dest) ==
  IF dest.targets.some /\ ~FeatureIsCompatible("CssNotSelList", dest.targets)
       /\ Len(c.list) > 1
  THEN Concat([i \in 1..Len(c.list) |->
                write_str(":not(")
                  \o serialize_selector(c.list[i], dest, dest.context, FALSE)
                  \o write_str(")")])
  ELSE write_str(":not(")
         \o Concat([i \in 1..Len(c.list) |->
                     (IF i = 1 THEN <<>>
                      ELSE IF dest.minify THEN write_str(",") ELSE write_str(", "))
                       \o serialize_selector(c.list[i], dest, dest.context, FALSE)])
         \o write_str(")")

\* C17: a :not() of several selectors is written as one `:not(x)` per
\* selector in the order of the list when the printer has targets without
\* :not() lists, and as one `:not(x, y)` when it has no targets or they
\* support the lists; the text is the same whether downlevel_selectors ran on
\* the list or not.  Stated for the :not() that ends the compound of a
\* one-selector list.
C17_NotWrittenPerSelector ==
  (/\ op = "to_css"
   /\ Len(selectors) = 1
   /\ selectors[1][Len(selectors[1])].kind = "Negation") =>
    LET s == selectors[1]
        dest == Printer(minify, targets, vendor_prefix, style_context)
    IN  /\ css = (IF Len(s) > 1
                  THEN SelectorListToCss(<<SubSeq(s, 1, Len(s) - 1)>>, dest)
                  ELSE <<>>)
                   \o NotAsStated(s[Len(s)], dest)
        /\ first_tree # <<>> => css = SelectorListToCss(first_tree, dest)

\* C17 amended: a :not() of several selectors is written as one `:not(x)`
\* per selector in the order of the list when the printer has targets
\* without :not() lists, and as one `:not(x, y)` when it has no targets or
\* they support the lists.  downlevel_selectors does not split or merge a
\* :not(): behind it the :not() has as many selectors as before, a selector
\* that holds no :dir() and no :lang() list the targets lack is the one it
\* was, and the text of a list that holds none is the same whether
\* downlevel_selectors ran on it or not; a selector that holds one is
\* written as downlevel_selectors left it.  Stated for the :not() that ends
\* the compound of a one-selector list.
C17_NotWrittenPerSelectorOfTheTreeAsLeft ==
  (/\ op = "to_css"
   /\ Len(selectors) = 1
   /\ selectors[1][Len(selectors[1])].kind = "Negation") =>
    LET s == selectors[1]
        dest == Printer(minify, targets, vendor_prefix, style_context)
    IN  /\ css = (IF Len(s) > 1
                  THEN SelectorListToCss(<<SubSeq(s, 1, Len(s) - 1)>>, dest)
                  ELSE <<>>)
                   \o NotAsStated(s[Len(s)], dest)
        /\ first_tree # <<>> =>
             LET before == first_tree[1][Len(first_tree[1])].list
                 after == s[Len(s)].list
             IN  /\ first_tree[1][Len(first_tree[1])].kind = "Negation"
                 /\ Len(after) = Len(before)
                 /\ \A i \in 1..Len(before) :
                      NoUnsupportedDirOrLangList(<<before[i]>>, targets)
                        => after[i] = before[i]
                 /\ NoUnsupportedDirOrLangList(first_tree, targets)
                      => css = SelectorListToCss(first_tree, dest)

\* `:not(:dir(rtl), .b)` went through downlevel_selectors, which rewrote the
\* :dir(), and was written with one :not() for each of its two selectors:
\* the text ends with `:not(.b)` and is not the text of the list as it was.
C17_Witness ==
  /\ op = "to_css"
  /\ first_tree = <<<<Negation(<<<<Dir(Rtl)>>, <<Class(b)>>>>)>>>>
  /\ selectors # first_tree
  /\ ~FeatureIsCompatible("CssNotSelList", targets)
  /\ Len(css) > 9
  /\ SubSeq(css, 1, 5) = write_str(":not(")
  /\ SubSeq(css, Len(css) - 8, Len(css)) = write_str("):not(.b)")
  /\ css # SelectorListToCss(first_tree,
                             Printer(minify, targets, vendor_prefix, style_context))

----------------------------------------------------------------------------
(* to_css of the selectors of a nested style rule, with and without a      *)
(* StyleContext, the selectors of the enclosing rules, in the printer, for *)
(* targets that are absent, support CssNesting or lack it.                 *)

foo == write_str("foo")
bar == write_str("bar")
baz == write_str("baz")

\* `&`, `&.foo`, `.foo&`, `& > .foo`, `.foo &`, `&div`, `.foo:not(&)`,
\* `&*`, `&div.foo`, `&*.foo`, `&*|div`, `&div > .foo`.
NestingLists ==
  {<<<<Nesting>>>>, <<<<Nesting, Class(foo)>>>>, <<<<Class(foo), Nesting>>>>,
   <<<<Class(foo), Combinator("Child"), Nesting>>>>,
   <<<<Nesting, Combinator("Descendant"), Class(foo)>>>>,
   <<<<Nesting, LocalName(div)>>>>,
   <<<<Class(foo), Negation(<<<<Nesting>>>>)>>>>,
   <<<<Nesting, ExplicitUniversalType>>>>,
   <<<<Nesting, LocalName(div), Class(foo)>>>>,
   <<<<Nesting, ExplicitUniversalType, Class(foo)>>>>,
   <<<<Nesting, ExplicitAnyNamespace, LocalName(div)>>>>,
   <<<<Class(foo), Combinator("Child"), Nesting, LocalName(div)>>>>}

\* The selectors of the enclosing rule: `.bar`, `.bar, .baz`, `div`,
\* `div.bar`, `.baz .bar`, `:hover`, and `&.bar` inside `.baz`.
StyleContexts ==
  {<<<<<<Class(bar)>>>>>>, <<<<<<Class(bar)>>, <<Class(baz)>>>>>>,
   <<<<<<LocalName(div)>>>>>>, <<<<<<LocalName(div), Class(bar)>>>>>>,
   <<<<<<Class(bar), Combinator("Descendant"), Class(baz)>>>>>>,
   <<<<<<PseudoClass("Hover")>>>>>>,
   <<<<<<Nesting, Class(bar)>>>>, <<<<Class(baz)>>>>>>,
   <<<<<<Class(bar), Nesting>>>>, <<<<LocalName(div), Class(baz)>>>>>>}

NestingTargets == {NoTargets, Browsers({"CssNesting"}, NoPrefixes), Browsers({}, NoPrefixes)}

InitNesting ==
  /\ selectors \in NestingLists
  /\ targets \in NestingTargets
  /\ style_context \in {<<>>} \cup StyleContexts
  /\ other = <<>> /\ unused_symbols = {} /\ parent_is_unused = FALSE
  /\ input = <<>> /\ css = <<>> /\ first_css = <<>> /\ minify = FALSE
  /\ vendor_prefix = VP_empty /\ first_tree = <<>> /\ ret = "none" /\ op = "init"
  /\ warnings = NoWarnings
  /\ css_module = NoCssModule /\ NoCommandLine

NextNesting == ToCss

SpecNesting == InitNesting /\ [][NextNesting]_vars

\* The text C18 gives an `&`: the one selector of the parent list as it is
\* when the `&` opens the first compound or the selector has no combinator
\* and no type selector, `:is(parent list)` otherwise; the `&` of the parent
\* is written against the context of the parent.
ParentAsStated(opens_selector, dest, context) ==
  LET parent == Head(context) IN
    IF /\ Len(parent) = 1
       /\ \/ opens_selector
          \/ CombinatorFree(parent[1]) /\ NoTypeSelector(parent[1])
    THEN serialize_selector(parent[1], dest, Tail(context), FALSE)
    ELSE write_str(":is(")
           \o serialize_selector_list(parent, dest, Tail(context), FALSE)
           \o write_str(")")

\* A selector of classes, `&` and combinators written compound by compound
\* from left to right, each `&` as ParentAsStated gives it.
NestedAsStated(selector, dest, context) ==
  LET compounds == Reverse(Split(selector, 1, <<>>))
      combinators == Reverse(SelectSeq(selector, is_combinator))
  IN  Concat([k \in 1..Len(compounds) |->
               Concat([i \in 1..Len(compounds[k]) |->
                        IF compounds[k][i].kind = "Nesting"
                        THEN ParentAsStated(k = 1 /\ i = 1, dest, context)
                        ELSE serialize_component(compounds[k][i], dest, context)])
                 \o (IF k < Len(compounds) THEN CombinatorToCss(combinators[k], dest)
                     ELSE <<>>)])

OnlyClassesAndNesting(selector) ==
  \A i \in 1..Len(selector) : selector[i].kind \in {"Class", "Nesting", "Combinator"}

\* C18: for targets without CssNesting and with a StyleContext, `&` is
\* written as the parent selector list: as its one selector when the list has
\* one selector and either the `&` opens the first compound or the selector
\* has no combinator and no type selector, as `:is(parent list)` in every
\* other case.
C18_NestingExpandedAgainstParent ==
  (/\ op = "to_css"
   /\ targets.some /\ ~FeatureIsCompatible("CssNesting", targets)
   /\ style_context # <<>>
   /\ OnlyClassesAndNesting(selectors[1])) =>
    css = NestedAsStated(selectors[1],
                         Printer(minify, targets, vendor_prefix, style_context),
                         style_context)

\* The Nesting components of a list, those in the lists of its components
\* included.
RECURSIVE CountNesting(_)
CountNesting(sels) ==
  IF sels = <<>> THEN 0
  ELSE IF Head(sels) = <<>> THEN CountNesting(Tail(sels))
  ELSE (IF Head(sels)[1].kind = "Nesting" THEN 1 ELSE 0)
         + CountNesting(Head(sels)[1].list)
         + CountNesting(<<Tail(Head(sels))>> \o Tail(sels))

\* The places of a text at which a word stands.
Occurrences(text, word) ==
  Cardinality({i \in 1..Len(text) :
                 /\ i + Len(word) - 1 <= Len(text)
                 /\ SubSeq(text, i, i + Len(word) - 1) = word})

\* C19: every Nesting component is written as `&` when the printer has no
\* targets or targets with CssNesting, and as `:scope` when the targets lack
\* CssNesting and there is no StyleContext.
C19_NestingWrittenBySupport ==
  op = "to_css" =>
    /\ (~targets.some \/ FeatureIsCompatible("CssNesting", targets)) =>
         /\ Occurrences(css, write_str("&")) = CountNesting(selectors)
         /\ Occurrences(css, write_str(":scope")) = 0
    /\ (targets.some /\ ~FeatureIsCompatible("CssNesting", targets)
          /\ style_context = <<>>) =>
         /\ Occurrences(css, write_str(":scope")) = CountNesting(selectors)
         /\ Occurrences(css, write_str("&")) = 0

----------------------------------------------------------------------------
(* The parser on the name of a pseudo-class or pseudo-element, plain or    *)
(* functional, with or without a sink for warnings in the parser options.  *)

PseudoNames ==
  {"foo", "Foo", "x-foo", "-foo", "-webkit-foo", "--foo", "hover", "HOVER", "marker",
   "-moz-selection", "lang", "dir", "cue", "local"}

PseudoArguments == {"", "(x)", "(x y)", "(ltr)", "(:foo)"}

\* The texts behind the colons: a name, or a function and its block.
PseudoTexts == {write_str(n \o args) : n \in PseudoNames, args \in PseudoArguments}

\* The sinks of the parser options: none, an empty one, and one that holds
\* a warning of an earlier rule.
WarningSinks ==
  {NoWarnings, Warnings(<<>>),
   Warnings(<<UnsupportedPseudoClassOrElement(write_str("bar"))>>)}

InitPseudoNames ==
  /\ input \in PseudoTexts
  /\ warnings \in WarningSinks
  /\ css_modules \in BOOLEAN
  /\ css_module = NoCssModule /\ NoSink
  /\ selectors = <<>>
  /\ other = <<>> /\ targets = NoTargets
  /\ unused_symbols = {} /\ parent_is_unused = FALSE
  /\ css = <<>> /\ first_css = <<>> /\ minify = FALSE /\ vendor_prefix = VP_empty
  /\ style_context = <<>> /\ first_tree = <<>> /\ ret = "none" /\ op = "init"

\* The name the text starts with, and the arguments of its block.
NameOf(text) == SubSeq(text, 1, IdentEnd(text, 1) - 1)
ArgumentsOf(text) == SubSeq(text, IdentEnd(text, 1) + 1, Len(text) - 1)
IsFunction(text) == At(text, IdentEnd(text, 1)) = "("

\* The Result of a callback: Ok(out) or Err.
Ok(out) == [ok |-> TRUE, out |-> out]
Err == [ok |-> FALSE, out |-> <<>>]
ResultOf(functional) == IF functional = <<>> THEN Err ELSE Ok(functional[1])

\* parse_non_ts_pseudo_class on a name behind one colon.
ParsePseudoClass ==
  /\ op = "init"
  /\ ~IsFunction(input)
  /\ ret' = Ok(parse_non_ts_pseudo_class(input))
  /\ warnings' = PseudoClassWarnings(warnings, input)
  /\ op' = "parse_non_ts_pseudo_class"
  /\ UNCHANGED <<sink_vars, css_module, selectors, other, targets, unused_symbols,
                 parent_is_unused, input,
                 css, first_css, first_tree, minify, vendor_prefix, style_context>>

\* parse_pseudo_element on a name behind two colons.
ParsePseudoElement ==
  /\ op = "init"
  /\ ~IsFunction(input)
  /\ ret' = Ok(parse_pseudo_element(input))
  /\ warnings' = PseudoElementWarnings(warnings, input)
  /\ op' = "parse_pseudo_element"
  /\ UNCHANGED <<sink_vars, css_module, selectors, other, targets, unused_symbols,
                 parent_is_unused, input,
                 css, first_css, first_tree, minify, vendor_prefix, style_context>>

\* parse_functional_pseudo_class on a function behind one colon.
ParseFunctionalPseudoClass ==
  /\ op = "init"
  /\ IsFunction(input)
  /\ \E r \in {parse_functional_pseudo_class(SelectorParser(TRUE, css_modules), NameOf(input),
                                             ArgumentsOf(input))} :
       ret' = ResultOf(r)
  /\ warnings' = FunctionalPseudoClassWarnings(
                    warnings, css_modules, NameOf(input),
                    ParseSelectorList(SelectorParser(TRUE, css_modules),
                                      ArgumentsOf(input), FALSE),
                    SelectorParse(SelectorParser(TRUE, css_modules),
                                  ArgumentsOf(input), TRUE))
  /\ op' = "parse_non_ts_functional_pseudo_class"
  /\ UNCHANGED <<sink_vars, css_module, selectors, other, targets, unused_symbols,
                 parent_is_unused, input,
                 css, first_css, first_tree, minify, vendor_prefix, style_context>>

\* parse_functional_pseudo_element on a function behind two colons.
ParseFunctionalPseudoElement ==
  /\ op = "init"
  /\ IsFunction(input)
  /\ \E r \in {parse_functional_pseudo_element(SelectorParser(TRUE, css_modules), NameOf(input),
                                               ArgumentsOf(input))} :
       ret' = ResultOf(r)
  /\ warnings' = FunctionalPseudoElementWarnings(
                    warnings, NameOf(input),
                    SelectorParse(SelectorParser(TRUE, css_modules),
                                  ArgumentsOf(input), TRUE))
  /\ op' = "parse_functional_pseudo_element"
  /\ UNCHANGED <<sink_vars, css_module, selectors, other, targets, unused_symbols,
                 parent_is_unused, input,
                 css, first_css, first_tree, minify, vendor_prefix, style_context>>

NextPseudoNames ==
  \/ ParsePseudoClass
  \/ ParsePseudoElement
  \/ ParseFunctionalPseudoClass
  \/ ParseFunctionalPseudoElement

SpecPseudoNames == InitPseudoNames /\ [][NextPseudoNames]_vars

\* The names of the fixed table of each operation, in lower case.
FixedTable(operation, options_css_modules) ==
  CASE operation = "parse_non_ts_pseudo_class" ->
         {write_str(e[1]) : e \in PseudoClassNames}
    [] operation = "parse_pseudo_element" ->
         {write_str(e[1]) : e \in PseudoElementNames}
    [] operation = "parse_non_ts_functional_pseudo_class" ->
         NonTsFunctions(options_css_modules)
    [] operation = "parse_functional_pseudo_element" ->
         {write_str("cue"), write_str("cue-region")}
    [] OTHER -> {}

\* What the claim gives for a name that is not in the table: Custom with the
\* name, or CustomFunction with the name and the tokens of the arguments.
CustomAsStated(result, operation, text) ==
  /\ result.ok
  /\ result.out.kind = IF operation \in {"parse_non_ts_pseudo_class",
                                          "parse_non_ts_functional_pseudo_class"}
                       THEN "NonTSPseudoClass" ELSE "PseudoElement"
  /\ result.out.sub = IF IsFunction(text) THEN "CustomFunction" ELSE "Custom"
  /\ result.out.name = NameOf(text)
  /\ IsFunction(text) => Concat(result.out.args) = ArgumentsOf(text)

\* C20: parsing a pseudo-class or pseudo-element name, plain or functional,
\* that is not in the fixed table succeeds with Custom or CustomFunction
\* holding the name as written, and adds exactly one warning to the sink when
\* the name does not begin with `-` and none when it does.
C20_UnknownNameKeptAndWarnedOnce ==
  [][(/\ op = "init" /\ op' # "init"
      /\ to_ascii_lowercase(NameOf(input)) \notin FixedTable(op', css_modules)) =>
       /\ CustomAsStated(ret', op', input)
       /\ warnings.some =>
            /\ warnings'.some
            /\ warnings'.list =
                 IF NameOf(input)[1] = "-" THEN warnings.list
                 ELSE warnings.list \o <<UnsupportedPseudoClassOrElement(NameOf(input))>>]_op

\* `Foo(x y)` behind one colon became CustomFunction{Foo, x y}, and the sink
\* that held one warning holds a second one, for Foo.
C20_Witness ==
  /\ op = "parse_non_ts_functional_pseudo_class"
  /\ input = write_str("Foo(x y)")
  /\ ret = Ok(CustomFunctionPseudoClass(write_str("Foo"), <<<<"x">>, <<" ">>, <<"y">>>>))
  /\ warnings = Warnings(<<UnsupportedPseudoClassOrElement(write_str("bar")),
                           UnsupportedPseudoClassOrElement(write_str("Foo"))>>)

----------------------------------------------------------------------------
(* serialize_pseudo_class on the printer of a CSS module whose writer has  *)
(* room for a number of characters and fails when it is full.              *)

MaxRoom == 8  \* the characters the writer has room for

\* The Result of a serializer call, the text the writer took and the
\* printer's css_module after the call.
Outcome(ok, text, state) == [ok |-> ok, css |-> text, css_module |-> state]

\* fmt::Write::write_str on a writer with room left: the text when it fits,
\* what fits of it and an error when it does not.
WriteWithin(text, room, state_after_ok, state_after_err) ==
  IF Len(text) <= room THEN Outcome(TRUE, text, state_after_ok)
  ELSE Outcome(FALSE, SubSeq(text, 1, room), state_after_err)

\* The css_module of the printer when the character at a place of the
\* text of a pseudo-class is written: none inside a Global arm, which has
\* taken it out, and the printer's own elsewhere.
CssModuleAt(pseudo_class, dest, context, place) ==
  IF serialize_pseudo_class(pseudo_class, [dest EXCEPT !.marks_taken = TRUE],
                            context)[place] = "taken"
  THEN NoCssModule
  ELSE dest.css_module

\* serialize_pseudo_class as a call on the printer.  A Global arm, of the
\* pseudo-class or of one inside its selector, takes the css_module out of
\* the printer, returns at once when its selector fails to write, and puts
\* the css_module back otherwise.
SerializePseudoClassCall(pseudo_class, dest, context, room) ==
  WriteWithin(serialize_pseudo_class(pseudo_class, dest, context), room,
              dest.css_module,
              IF Len(serialize_pseudo_class(pseudo_class, dest, context)) > room
              THEN CssModuleAt(pseudo_class, dest, context, room + 1)
              ELSE dest.css_module)

h == <<"h">>

CssModulePseudoClasses ==
  {Global(<<Class(a)>>), Global(<<Class(b), Combinator("Descendant"), Class(a)>>),
   Global(<<LocalName(div)>>), Global(<<Class(b), Local(<<Class(a)>>)>>),
   Global(<<Class(b), Combinator("Child"), Class(a)>>), Global(<<ID(a)>>),
   Local(<<Class(a)>>), Local(<<Class(b), Global(<<Class(a)>>)>>),
   Local(<<Class(b), Combinator("Child"), Class(a)>>), PseudoClass("Hover")}

InitCssModules ==
  /\ selectors \in {<<<<pc>>>> : pc \in CssModulePseudoClasses}
  /\ css_module \in {NoCssModule, CssModule(h)}
  /\ other = <<>> /\ targets = NoTargets
  /\ unused_symbols = {} /\ parent_is_unused = FALSE /\ input = <<>>
  /\ css = <<>> /\ first_css = <<>> /\ minify \in BOOLEAN /\ vendor_prefix = VP_empty
  /\ style_context = <<>> /\ first_tree = <<>> /\ ret = "none" /\ op = "init"
  /\ warnings = NoWarnings /\ NoCommandLine

\* serialize_pseudo_class on the one pseudo-class of the list.
SerializePseudoClass ==
  /\ op = "init"
  /\ \E room \in 0..MaxRoom :
       \E r \in {SerializePseudoClassCall(
                   selectors[1][1],
                   [Printer(minify, targets, vendor_prefix, style_context)
                      EXCEPT !.css_module = css_module],
                   style_context, room)} :
         /\ css' = r.css
         /\ css_module' = r.css_module
         /\ ret' = IF r.ok THEN "Ok" ELSE "Err"
  /\ op' = "serialize_pseudo_class"
  /\ UNCHANGED <<sink_vars, warnings, selectors, other, targets, unused_symbols,
                 parent_is_unused, input, first_css, first_tree, minify, vendor_prefix,
                 style_context>>

NextCssModules == SerializePseudoClass

SpecCssModules == InitCssModules /\ [][NextCssModules]_vars

\* C21: after serialize_pseudo_class on a Global pseudo-class, whether it
\* returned Ok or an error, the printer's css_module is what it was before
\* the call.
C21_CssModuleRestored ==
  [][(op = "init" /\ op' = "serialize_pseudo_class"
        /\ selectors[1][1].sub = "Global") => css_module' = css_module]_op

\* The first compound of a selector as it is written: the components behind
\* the last combinator of the match order.
FirstCompoundStart(selector) ==
  CHOOSE p \in 1..(Len(selector) + 1) :
    /\ \A i \in p..Len(selector) : ~is_combinator(selector[i])
    /\ p > 1 => is_combinator(selector[p - 1])

\* The first compound starts with `&` followed by a type selector, with or
\* without a namespace before it.
LeadingNestingBeforeType(selector) ==
  LET p == FirstCompoundStart(selector) IN
    /\ p + 1 <= Len(selector)
    /\ selector[p].kind = "Nesting"
    /\ \/ is_type_selector(<<selector[p + 1]>>)
       \/ /\ p + 2 <= Len(selector)
          /\ is_namespace(<<selector[p + 1]>>)
          /\ is_type_selector(<<selector[p + 2]>>)

\* The selector with the `&` of its first compound moved behind the
\* namespace and the type selector.
NestingBehindType(selector) ==
  LET p == FirstCompoundStart(selector)
      n == IF is_type_selector(<<selector[p + 1]>>) THEN 1 ELSE 2
  IN  SubSeq(selector, 1, p - 1) \o SubSeq(selector, p + 1, p + n) \o <<selector[p]>>
        \o SubSeq(selector, p + n + 1, Len(selector))

\* C22: for targets without CssNesting and with a StyleContext, a first
\* compound that starts with `&` followed by a type selector is written with
\* the namespace and the type selector first and the `&` behind them, the
\* `&` expanded as one that does not open the selector.
C22_TypeSelectorWrittenBeforeNesting ==
  (/\ op = "to_css"
   /\ targets.some /\ ~FeatureIsCompatible("CssNesting", targets)
   /\ style_context # <<>>
   /\ LeadingNestingBeforeType(selectors[1])) =>
    css = NestedAsStated(NestingBehindType(selectors[1]),
                         Printer(minify, targets, vendor_prefix, style_context),
                         style_context)

----------------------------------------------------------------------------
(* The command line around the sink for warnings: main creates the sink,   *)
(* hands a clone to the parser options, parses (with --bundle, one parser  *)
(* thread per file), leaves the block that owns the stylesheet, writes the *)
(* source map and then drains the sink.  Every unwrap() of the block may   *)
(* panic, and main returns the error of a source map that is not written.  *)

MaxThreads == 2   \* parser threads of one run
MaxPending == 2   \* warnings one parser has to report

Thread(pending) == [pc |-> "idle", pending |-> pending, local |-> <<>>, pushed |-> <<>>]

\* The warning a parser thread reports when it has k more to report.
WarningOf(t, k) == [thread |-> t, number |-> k]

InitCommandLine ==
  /\ error_recovery \in BOOLEAN
  /\ css_modules \in BOOLEAN
  /\ \E n \in 1..MaxThreads :
       threads \in [1..n -> {Thread(k) : k \in 0..MaxPending}]
  /\ lock = {}
  /\ holders = 0
  /\ drained = <<>>
  /\ warnings = NoWarnings
  /\ selectors = <<>> /\ other = <<>> /\ targets = NoTargets
  /\ unused_symbols = {} /\ parent_is_unused = FALSE /\ input = <<>>
  /\ css = <<>> /\ first_css = <<>> /\ minify = FALSE /\ vendor_prefix = VP_empty
  /\ style_context = <<>> /\ first_tree = <<>> /\ ret = "none" /\ op = "init"
  /\ css_module = NoCssModule

printer_vars ==
  <<selectors, other, targets, unused_symbols, parent_is_unused, input, css, first_css,
    first_tree, minify, vendor_prefix, style_context, ret, css_module>>

\* main, lines 124-128: the sink is made when error_recovery is set.
CreateSink ==
  /\ op = "init"
  /\ warnings' = IF error_recovery THEN Warnings(<<>>) ELSE NoWarnings
  /\ holders' = IF error_recovery THEN 1 ELSE 0
  /\ op' = "created"
  /\ UNCHANGED <<printer_vars, error_recovery, css_modules, threads, lock, drained>>

\* main, lines 136-155: the options take a clone of the sink and parsing
\* starts; with --bundle every file is parsed on a thread of its own with a
\* clone of the options.
StartParsing ==
  /\ op = "created"
  /\ holders' = IF ~warnings.some THEN 0
                ELSE IF Len(threads) = 1 THEN holders + 1
                ELSE holders + 1 + Len(threads)
  /\ threads' = [t \in DOMAIN threads |-> [threads[t] EXCEPT !.pc = "parse"]]
  /\ op' = "parsing"
  /\ UNCHANGED <<printer_vars, error_recovery, css_modules, warnings, lock, drained>>

\* A lock that lets every writer in.
write_lock_free_Always(l) == TRUE

\* RwLock::write succeeds for a thread when nobody holds the lock.
write_lock_free(l) == l = {}

\* ParserOptions::warn without a sink: the warning is dropped.
WarnWithoutSink(t) ==
  /\ op = "parsing"
  /\ threads[t].pc = "parse" /\ threads[t].pending > 0
  /\ ~warnings.some
  /\ threads' = [threads EXCEPT ![t].pending = @ - 1]
  /\ UNCHANGED <<printer_vars, error_recovery, css_modules, warnings, lock, holders, drained, op>>

\* ParserOptions::warn with a sink: warnings.write()
AcquireWrite(t) ==
  /\ op = "parsing"
  /\ threads[t].pc = "parse" /\ threads[t].pending > 0
  /\ warnings.some
  /\ write_lock_free(lock)
  /\ lock' = lock \cup {t}
  /\ threads' = [threads EXCEPT ![t].pc = "locked"]
  /\ UNCHANGED <<printer_vars, error_recovery, css_modules, warnings, holders, drained, op>>

\* Vec::push reads the vector ...
ReadSink(t) ==
  /\ threads[t].pc = "locked"
  /\ threads' = [threads EXCEPT ![t].pc = "read", ![t].local = warnings.list]
  /\ UNCHANGED <<printer_vars, error_recovery, css_modules, warnings, lock, holders, drained, op>>

\* ... and writes the warning behind what it read.
WriteSink(t) ==
  /\ threads[t].pc = "read"
  /\ warnings' = Warnings(Append(threads[t].local, WarningOf(t, threads[t].pending)))
  /\ threads' = [threads EXCEPT ![t].pc = "written",
                                ![t].pushed = Append(@, WarningOf(t, threads[t].pending)),
                                ![t].pending = @ - 1]
  /\ UNCHANGED <<printer_vars, error_recovery, css_modules, lock, holders, drained, op>>

\* The write guard is dropped at the end of the statement.
ReleaseWrite(t) ==
  /\ threads[t].pc = "written"
  /\ lock' = lock \ {t}
  /\ threads' = [threads EXCEPT ![t].pc = "parse"]
  /\ UNCHANGED <<printer_vars, error_recovery, css_modules, warnings, holders, drained, op>>

\* The parser of a file returns.
FinishParsing(t) ==
  /\ op = "parsing"
  /\ threads[t].pc = "parse" /\ threads[t].pending = 0
  /\ threads' = [threads EXCEPT ![t].pc = "done"]
  /\ UNCHANGED <<printer_vars, error_recovery, css_modules, warnings, lock, holders, drained, op>>

AllParsed == \A t \in DOMAIN threads : threads[t].pc = "done"

\* main, line 182: minify and to_css are done, and the block that owns the
\* stylesheet, the bundler and their options ends.
LeaveBlock ==
  /\ op = "parsing"
  /\ AllParsed
  /\ holders' = IF warnings.some THEN 1 ELSE 0
  /\ op' = "left_block"
  /\ UNCHANGED <<printer_vars, error_recovery, css_modules, threads, warnings, lock, drained>>

\* main, lines 184-201: with --sourcemap the mappings are written, and main
\* returns the error when write_vlq fails: its locals are dropped, the sink
\* among them.
WriteSourceMap ==
  /\ op = "left_block"
  /\ \E sourcemap \in BOOLEAN, written \in BOOLEAN :
       IF sourcemap /\ ~written
       THEN /\ op' = "returned_err"
            /\ warnings' = NoWarnings
            /\ holders' = 0
       ELSE /\ op' = "mapped"
            /\ UNCHANGED <<warnings, holders>>
  /\ UNCHANGED <<printer_vars, error_recovery, css_modules, threads, lock, drained>>

\* An unwrap() of the block panics: parse (once its threads are joined),
\* minify or to_css returned an error.  The program ends and the locals of
\* main go with it, the sink and every clone of it among them.
Panic ==
  /\ op = "parsing"
  /\ \A t \in DOMAIN threads : threads[t].pc \in {"parse", "done"}
  /\ op' = "panicked"
  /\ warnings' = NoWarnings
  /\ holders' = 0
  /\ UNCHANGED <<printer_vars, error_recovery, css_modules, threads, lock, drained>>

\* main, lines 203-208: Arc::try_unwrap on the sink, and the warnings are
\* printed.  When another holder is left try_unwrap hands the Arc back, the
\* unwrap() panics and drops it: the sink stays with the other holders.
DrainSink ==
  /\ op = "mapped"
  /\ IF ~warnings.some
     THEN /\ op' = "done"
          /\ UNCHANGED <<warnings, holders, drained>>
     ELSE IF holders # 1
     THEN /\ op' = "unwrap_failed"
          /\ holders' = holders - 1
          /\ UNCHANGED <<warnings, drained>>
     ELSE /\ drained' = Append(drained, warnings.list)
          /\ warnings' = NoWarnings
          /\ holders' = 0
          /\ op' = "done"
  /\ UNCHANGED <<printer_vars, error_recovery, css_modules, threads, lock>>

NextCommandLine ==
  \/ CreateSink
  \/ StartParsing
  \/ \E t \in DOMAIN threads : WarnWithoutSink(t)
  \/ \E t \in DOMAIN threads : AcquireWrite(t)
  \/ \E t \in DOMAIN threads : ReadSink(t)
  \/ \E t \in DOMAIN threads : WriteSink(t)
  \/ \E t \in DOMAIN threads : ReleaseWrite(t)
  \/ \E t \in DOMAIN threads : FinishParsing(t)
  \/ LeaveBlock
  \/ WriteSourceMap
  \/ Panic
  \/ DrainSink

SpecCommandLine == InitCommandLine /\ [][NextCommandLine]_vars

\* The warnings of one thread in a list, in the order of the list.
WarningsOf(t, list) == SelectSeq(list, LAMBDA w : w.thread = t)

\* Every warning a thread has pushed is in the list, unchanged and in the
\* order of the pushes, and the list holds nothing else.
HoldsAllPushed(list) ==
  /\ \A t \in DOMAIN threads : WarningsOf(t, list) = threads[t].pushed
  /\ \A i \in 1..Len(list) : list[i].thread \in DOMAIN threads

\* The sink while it lives and at its drain: it exists exactly when
\* error_recovery is set, it holds every pushed warning of every parser,
\* unchanged and in push order, and it is drained after every parser has
\* returned, when main is its only holder.
SinkKept ==
  /\ op \in {"created", "parsing", "left_block", "mapped"} =>
       (warnings.some <=> error_recovery)
  /\ warnings.some => HoldsAllPushed(warnings.list)
  /\ drained # <<>> =>
       /\ AllParsed
       /\ holders = 0
       /\ HoldsAllPushed(drained[1])
  /\ op # "unwrap_failed"

\* main has ended: at its last line, in a panic of an unwrap(), or with
\* the error of the source map.
Ended == op \in {"done", "panicked", "returned_err", "unwrap_failed"}

----------------------------------------------------------------------------
(* to_css of `.a` with one prefixable pseudo-class or pseudo-element, for  *)
(* every stored prefix and every vendor-prefix override of the printer.    *)

SinglePrefixes == {VP_None, VP_WebKit, VP_Moz, VP_Ms, VP_O}

\* `.a:pseudo` and `.a::pseudo`
PrefixableLists ==
  {<<<<Class(a), PrefixedPseudoClass(v, p)>>>> :
     v \in PrefixablePseudoClasses, p \in SinglePrefixes}
    \cup {<<<<PrefixedPseudoElement(v, p), Combinator("PseudoElement"), Class(a)>>>> :
            v \in PrefixablePseudoElements, p \in SinglePrefixes}

InitPrefixable ==
  /\ selectors \in PrefixableLists
  /\ vendor_prefix \in {VP_empty} \cup SinglePrefixes
  /\ other = <<>> /\ targets = NoTargets
  /\ unused_symbols = {} /\ parent_is_unused = FALSE /\ input = <<>>
  /\ css = <<>> /\ first_css = <<>> /\ minify = FALSE
  /\ style_context = <<>> /\ first_tree = <<>> /\ ret = "none" /\ op = "init"
  /\ warnings = NoWarnings /\ css_module = NoCssModule /\ NoCommandLine

NextPrefixable == ToCss

SpecPrefixable == InitPrefixable /\ [][NextPrefixable]_vars

\* The one pseudo of a list of PrefixableLists.
PseudoOf(sels) ==
  IF sels[1][1].kind = "PseudoElement" THEN sels[1][1] ELSE sels[1][2]

\* The name C24 gives a prefixable pseudo under a prefix.
NameAsStated(variant, vp) ==
  CASE variant = "Fullscreen" ->
         IF vp \in {VP_WebKit, VP_Moz} THEN "full-screen" ELSE "fullscreen"
    [] variant = "Placeholder" ->
         IF vp \in {VP_WebKit, VP_Ms} THEN "input-placeholder" ELSE "placeholder"
    [] variant = "FileSelectorButton" ->
         IF vp = VP_WebKit THEN "file-upload-button"
         ELSE IF vp = VP_Ms THEN "browse" ELSE "file-selector-button"
    [] variant = "AnyLink" -> "any-link"
    [] variant = "ReadOnly" -> "read-only"
    [] variant = "ReadWrite" -> "read-write"
    [] variant = "PlaceholderShown" -> "placeholder-shown"
    [] variant = "Autofill" -> "autofill"
    [] variant = "Selection" -> "selection"
    [] variant = "Backdrop" -> "backdrop"

PrefixAsStated(vp) ==
  CASE vp = VP_WebKit -> "-webkit-"
    [] vp = VP_Moz -> "-moz-"
    [] vp = VP_Ms -> "-ms-"
    [] vp = VP_O -> "-o-"
    [] vp = VP_None -> ""

\* C24: a prefixable pseudo-class or pseudo-element is written with the
\* printer's vendor-prefix override when that is not empty and with its
\* stored prefix otherwise, and its name is spelled after the prefix in
\* effect.
C24_PrefixableWrittenWithPrefixInEffect ==
  op = "to_css" =>
    LET pseudo == PseudoOf(selectors)
        vp == IF vendor_prefix # VP_empty THEN vendor_prefix ELSE pseudo.vp
    IN  css = write_str(".a")
                \o write_str(IF pseudo.kind = "PseudoElement" THEN "::" ELSE ":")
                \o write_str(PrefixAsStated(vp))
                \o write_str(NameAsStated(pseudo.sub, vp))

\* `.a::placeholder` stored with the Moz prefix was written under the Ms
\* override as `.a::-ms-input-placeholder`.
C24_Witness ==
  /\ op = "to_css"
  /\ selectors = <<<<PrefixedPseudoElement("Placeholder", VP_Moz),
                     Combinator("PseudoElement"), Class(a)>>>>
  /\ vendor_prefix = VP_Ms
  /\ css = write_str(".a::-ms-input-placeholder")

----------------------------------------------------------------------------
(* to_css of `.a:has(s)` and `.a:not(s)` for selectors s of `:scope`, a    *)
(* class, a type selector and combinators.  serialize_selector asserts in  *)
(* a build with debug assertions that the combinators are not exhausted    *)
(* when it visits a compound; a release build does not look.               *)

MaxRelativeLen == 4  \* components of the selector inside :has() or :not()

RelativeComponents ==
  {Scope, Class(b), LocalName(div), Combinator("Child"), Combinator("Descendant")}

RelativeSelectors == SelectorsUpTo(RelativeComponents, MaxRelativeLen)

RelativeLists ==
  {<<<<Class(a), Has(<<s>>)>>>> : s \in RelativeSelectors}
    \cup {<<<<Class(a), Negation(<<s>>)>>>> : s \in RelativeSelectors}

InitRelative ==
  /\ selectors \in RelativeLists
  /\ other = <<>> /\ targets = NoTargets
  /\ unused_symbols = {} /\ parent_is_unused = FALSE /\ input = <<>>
  /\ css = <<>> /\ first_css = <<>> /\ minify = FALSE /\ vendor_prefix = VP_empty
  /\ style_context = <<>> /\ first_tree = <<>> /\ ret = "none" /\ op = "init"
  /\ warnings = NoWarnings /\ css_module = NoCssModule /\ NoCommandLine

\* The compound at which debug_assert!(!combinators_exhausted) of line 1094
\* fails, 0 when it holds at every compound; the loop is that of
\* SerializeCompounds.
RECURSIVE FailedAssertion(_, _, _, _, _, _)
FailedAssertion(compounds, combinators, k, ci, is_relative, combinators_exhausted) ==
  IF k > Len(compounds) THEN 0
  ELSE IF combinators_exhausted THEN k
  ELSE
    LET scoped ==
          is_relative /\ compounds[k] # <<>> /\ compounds[k][1].kind = "Scope"
        ci_1 == IF scoped /\ ci <= Len(combinators) THEN ci + 1 ELSE ci
        compound == IF scoped THEN Tail(compounds[k]) ELSE compounds[k]
    IN  IF compound = <<>>
        THEN FailedAssertion(compounds, combinators, k + 1, ci_1, is_relative /\ ~scoped,
                             FALSE)
        ELSE FailedAssertion(compounds, combinators, k + 1,
                             IF ci_1 <= Len(combinators) THEN ci_1 + 1 ELSE ci_1,
                             is_relative /\ ~scoped, ci_1 > Len(combinators))

\* The compounds and the combinators of a selector in the order they are
\* written, as serialize_selector takes them (lines 1087-1088).
CompoundsOf(selector) == Reverse(Split(iter_raw_match_order(selector), 1, <<>>))
CombinatorsOf(selector) ==
  Reverse(SelectSeq(iter_raw_match_order(selector), is_combinator))

\* The text serialize_selector has written when it reaches compound k.
WrittenBefore(selector, k, is_relative, dest, context) ==
  SerializeCompounds(SubSeq(CompoundsOf(selector), 1, k - 1), CombinatorsOf(selector),
                     1, 1, TRUE, is_relative, dest, context)

\* The selector inside the :has() or :not() of the list, and whether it is
\* written as a relative selector.
InnerOf(sels) == sels[1][2].list[1]
InnerIsRelative(sels) == sels[1][2].kind = "Has"

\* SelectorList::to_css in a build with or without debug assertions.
ToCssRelative ==
  /\ op = "init"
  /\ \E m \in BOOLEAN, debug_assertions \in BOOLEAN :
       \E failed \in {FailedAssertion(CompoundsOf(InnerOf(selectors)),
                                      CombinatorsOf(InnerOf(selectors)), 1, 1,
                                      InnerIsRelative(selectors), FALSE)} :
         /\ minify' = m
         /\ IF debug_assertions /\ failed > 0
            THEN /\ ret' = "panicked"
                 /\ css' = write_str(".a:has(")
                             \o WrittenBefore(InnerOf(selectors), failed, TRUE,
                                              Printer(m, targets, vendor_prefix,
                                                      style_context),
                                              style_context)
            ELSE /\ ret' = "Ok"
                 /\ css' = SelectorListToCss(selectors,
                                             Printer(m, targets, vendor_prefix,
                                                     style_context))
  /\ op' = "to_css"
  /\ UNCHANGED <<sink_vars, css_module, warnings, selectors, other, targets,
                 unused_symbols, parent_is_unused, input, first_css, first_tree,
                 vendor_prefix, style_context>>

NextRelative == ToCssRelative

SpecRelative == InitRelative /\ [][NextRelative]_vars

\* The selector starts with a compound that is `:scope` alone and is
\* followed by a combinator.
LeadingScopeBeforeCombinator(selector) ==
  /\ Len(selector) >= 3
  /\ selector[Len(selector)].kind = "Scope"
  /\ is_combinator(selector[Len(selector) - 1])

\* What C25 gives for a selector inside :has(): the combinator and the rest
\* when it starts with `:scope` and a combinator, the whole selector as it
\* is written anywhere else otherwise.
RelativeAsStated(selector, dest, context) ==
  IF LeadingScopeBeforeCombinator(selector)
  THEN CombinatorToCss(selector[Len(selector) - 1], dest)
         \o serialize_selector(SubSeq(selector, 1, Len(selector) - 2), dest, context,
                               FALSE)
  ELSE serialize_selector(selector, dest, context, FALSE)

\* C25: inside :has(), a leading `:scope` that is followed at once by a
\* combinator is dropped and the combinator is kept; a `:scope` that does
\* not lead the selector or that shares its compound with other simple
\* selectors is written, and the rest of the selector is written unchanged
\* and in order.
C25_LeadingScopeElided ==
  (op = "to_css" /\ InnerIsRelative(selectors)) =>
    /\ ret = "Ok"
    /\ css = write_str(".a:has(")
               \o RelativeAsStated(InnerOf(selectors),
                                   Printer(minify, targets, vendor_prefix, style_context),
                                   style_context)
               \o write_str(")")

\* A compound written on its own, in the order of its simple selectors.
CompoundAlone(compound, dest, context) ==
  IF compound = <<>> THEN <<>> ELSE serialize_selector(compound, dest, context, FALSE)

\* The compounds that start with `:scope`.
ScopeLed(compounds) ==
  {k \in 1..Len(compounds) : compounds[k] # <<>> /\ compounds[k][1].kind = "Scope"}

\* The compounds from the k-th on, each followed by the combinator that
\* separates it from the next; the compounds in dropped are written without
\* their leading `:scope`.
RECURSIVE Between(_, _, _, _, _, _)
Between(compounds, combinators, k, dropped, dest, context) ==
  IF k > Len(compounds) THEN <<>>
  ELSE (IF k \in dropped
        THEN CompoundAlone(Tail(compounds[k]), dest, context)
        ELSE CompoundAlone(compounds[k], dest, context))
         \o (IF k <= Len(combinators) THEN CombinatorToCss(combinators[k], dest)
             ELSE <<>>)
         \o Between(compounds, combinators, k + 1, dropped, dest, context)

\* The text before the selector inside the :has() or :not() of the list.
WrapperOf(sels) ==
  IF InnerIsRelative(sels) THEN write_str(".a:has(") ELSE write_str(".a:not(")

\* C29: for every selector of the data model, a relative selector whose
\* compound starts with `:scope` included, the combinators are not exhausted
\* when serialize_selector visits a further compound, and every combinator
\* is written once, between the two compounds it separates.
C29_CombinatorsBetweenCompounds ==
  op = "to_css" =>
    /\ ret = "Ok"
    /\ \E dropped \in SUBSET (IF InnerIsRelative(selectors)
                              THEN ScopeLed(CompoundsOf(InnerOf(selectors)))
                              ELSE {}) :
         css = WrapperOf(selectors)
                 \o Between(CompoundsOf(InnerOf(selectors)),
                            CombinatorsOf(InnerOf(selectors)), 1, dropped,
                            Printer(minify, targets, vendor_prefix, style_context),
                            style_context)
                 \o write_str(")")

----------------------------------------------------------------------------
(* Every name of the tables of parse_non_ts_pseudo_class and               *)
(* parse_pseudo_element, in lower and in upper case, parsed by its table   *)
(* and written by serialize_pseudo_class or serialize_pseudo_element with  *)
(* no prefix override and no pseudo-class remapping.                       *)

\* str::to_ascii_uppercase
to_ascii_uppercase(name) ==
  [i \in 1..Len(name) |->
    IF \E u \in DOMAIN UpperToLower : UpperToLower[u] = name[i]
    THEN CHOOSE u \in DOMAIN UpperToLower : UpperToLower[u] = name[i]
    ELSE name[i]]

Spellings(name) == {write_str(name), to_ascii_uppercase(write_str(name))}

\* The four pseudo-elements that may be written with one colon.
LegacyPseudoElementNames == {"before", "after", "first-line", "first-letter"}

TableTexts ==
  UNION {{write_str(":") \o s : s \in Spellings(e[1])} : e \in PseudoClassNames}
    \cup UNION {{write_str("::") \o s : s \in Spellings(e[1])} : e \in PseudoElementNames}
    \cup UNION {{write_str(":") \o s : s \in Spellings(n)} : n \in LegacyPseudoElementNames}

InitNameTables ==
  /\ input \in TableTexts
  /\ selectors = <<>>
  /\ other = <<>> /\ targets = NoTargets
  /\ unused_symbols = {} /\ parent_is_unused = FALSE
  /\ css = <<>> /\ first_css = <<>> /\ minify = FALSE /\ vendor_prefix = VP_empty
  /\ style_context = <<>> /\ first_tree = <<>> /\ ret = "none" /\ op = "init"
  /\ warnings = NoWarnings /\ css_module = NoCssModule /\ NoCommandLine

\* The name behind the colons of a text, and whether the text names a
\* pseudo-element: two colons, or one colon and a name of CSS 2.
TableNameOf(text) == IF At(text, 2) = ":" THEN SubSeq(text, 3, Len(text)) ELSE Tail(text)
NamesPseudoElement(text) == At(text, 2) = ":" \/ is_css2_pseudo_element(Tail(text))

\* parse_non_ts_pseudo_class or parse_pseudo_element on the name.
ParseTableName ==
  /\ op = "init"
  /\ selectors' = <<<<IF NamesPseudoElement(input)
                      THEN parse_pseudo_element(TableNameOf(input))
                      ELSE parse_non_ts_pseudo_class(TableNameOf(input))>>>>
  /\ op' = "parsed_name"
  /\ UNCHANGED <<sink_vars, css_module, warnings, other, targets, unused_symbols,
                 parent_is_unused, input, css, first_css, first_tree, minify,
                 vendor_prefix, style_context, ret>>

\* serialize_pseudo_class or serialize_pseudo_element on what was parsed.
SerializeTableName ==
  /\ op = "parsed_name"
  /\ css' = IF selectors[1][1].kind = "PseudoElement"
            THEN serialize_pseudo_element(selectors[1][1], RoundTripPrinter, <<>>)
            ELSE serialize_pseudo_class(selectors[1][1], RoundTripPrinter, <<>>)
  /\ op' = "serialized_name"
  /\ UNCHANGED <<sink_vars, css_module, warnings, selectors, other, targets,
                 unused_symbols, parent_is_unused, input, first_css, first_tree, minify,
                 vendor_prefix, style_context, ret>>

NextNameTables == ParseTableName \/ SerializeTableName

SpecNameTables == InitNameTables /\ [][NextNameTables]_vars

\* C30: every name of the two tables, the vendor-prefixed spellings
\* included, is written again as it was read, in lower case, behind one
\* colon for a pseudo-class and for before, after, first-line and
\* first-letter and behind two colons for every other pseudo-element.
C30_TableNameWrittenAgain ==
  op = "serialized_name" =>
    css = (IF NamesPseudoElement(input)
              /\ to_ascii_lowercase(TableNameOf(input))
                   \notin {write_str(n) : n \in LegacyPseudoElementNames}
           THEN write_str("::") ELSE write_str(":"))
            \o to_ascii_lowercase(TableNameOf(input))

----------------------------------------------------------------------------
(* to_css of one attribute selector `[data-x<operator><value>]`, for each  *)
(* operator and case sensitivity, with and without minify.                 *)

MaxValueLen == 2  \* characters of the attribute values that are enumerated

ValueChars == {"a", "1", "-", " ", "\""}

RECURSIVE TextsUpTo(_, _)
TextsUpTo(chars, n) ==
  IF n = 0 THEN {<<>>}
  ELSE TextsUpTo(chars, n - 1)
         \cup {<<c>> \o t : c \in chars, t \in {u \in TextsUpTo(chars, n - 1) : Len(u) = n - 1}}

AttributeValues ==
  TextsUpTo(ValueChars, MaxValueLen)
    \cup {write_str("foo"), write_str("foo bar"), write_str("a b c d"), write_str("a\\b")}

AttributeLists ==
  {<<<<AttributeInNoNamespace(write_str("data-x"), operator, value, case_sensitivity)>>>> :
     operator \in {"Equal", "Includes", "Suffix"}, value \in AttributeValues,
     case_sensitivity \in DOMAIN CaseSensitivityText}

InitAttributes ==
  /\ selectors \in AttributeLists
  /\ other = <<>> /\ targets = NoTargets
  /\ unused_symbols = {} /\ parent_is_unused = FALSE /\ input = <<>>
  /\ css = <<>> /\ first_css = <<>> /\ minify = FALSE /\ vendor_prefix = VP_empty
  /\ style_context = <<>> /\ first_tree = <<>> /\ ret = "none" /\ op = "init"
  /\ warnings = NoWarnings /\ css_module = NoCssModule /\ NoCommandLine

NextAttributes == ToCss

SpecAttributes == InitAttributes /\ [][NextAttributes]_vars

\* The fields of the attribute selector of the list.
AttributeOf(sels) == sels[1][1]
ValueOf(sels) == sels[1][1].args[2]

\* A value that is an identifier as it stands: letters, digits, `-` and
\* `_`, not starting with a digit nor with `-` and a digit, and not `-`
\* alone.
ValidIdentifier(value) ==
  /\ value # <<>>
  /\ \A i \in 1..Len(value) : value[i] \in NameChars
  /\ value[1] \notin Digits
  /\ value # <<"-">>
  /\ ~(Len(value) >= 2 /\ value[1] = "-" /\ value[2] \in Digits)

\* The value between quotes, `"` and `\` behind a backslash.
Quoted(value) ==
  <<"\"">>
    \o Concat([i \in 1..Len(value) |->
                IF value[i] = "\"" \/ value[i] = "\\" THEN <<"\\", value[i]>>
                ELSE <<value[i]>>])
    \o <<"\"">>

\* The text around the value: the name and the operator in front of it,
\* the suffix of the case sensitivity and the bracket behind it.
BeforeValue(attribute) ==
  write_str("[data-x")
    \o (CASE attribute.args[1] = "Equal" -> write_str("=")
          [] attribute.args[1] = "Includes" -> write_str("~=")
          [] attribute.args[1] = "Suffix" -> write_str("$="))
AfterValue(attribute) ==
  (CASE attribute.sub = "AsciiCaseInsensitive" -> write_str(" i")
     [] attribute.sub = "ExplicitCaseSensitive" -> write_str(" s")
     [] OTHER -> <<>>)
    \o write_str("]")

\* The statement of C26 as the specification words it: with minify the
\* value is written as it stands when it is a valid identifier (it is
\* then shorter than the quoted form) and between quotes otherwise, so
\* `foo bar` stays quoted.
C26_ShorterOfValidIdentifierAndString ==
  op = "to_css" =>
    css = BeforeValue(AttributeOf(selectors))
            \o (IF minify /\ ValidIdentifier(ValueOf(selectors))
                THEN ValueOf(selectors) ELSE Quoted(ValueOf(selectors)))
            \o AfterValue(AttributeOf(selectors))

\* The text written between the operator and the suffix.
WrittenValue ==
  SubSeq(css, Len(BeforeValue(AttributeOf(selectors))) + 1,
         Len(css) - Len(AfterValue(AttributeOf(selectors))))

\* C26: with minify the value is written as an identifier, escaped where
\* it has to be, or between quotes, whichever is shorter, and between
\* quotes when the two are of one length or the value is empty; without
\* minify it is written between quotes; the suffix is ` i` for
\* AsciiCaseInsensitive, ` s` for ExplicitCaseSensitive and nothing
\* otherwise.
C26_ShorterOfIdentifierAndString ==
  op = "to_css" =>
    /\ css = BeforeValue(AttributeOf(selectors)) \o WrittenValue
               \o AfterValue(AttributeOf(selectors))
    /\ WrittenValue \in {serialize_identifier(ValueOf(selectors)),
                         Quoted(ValueOf(selectors))}
    /\ WrittenValue # <<>>
    /\ Len(WrittenValue) <= Len(Quoted(ValueOf(selectors)))
    /\ minify /\ ValueOf(selectors) # <<>> =>
         Len(WrittenValue) <= Len(serialize_identifier(ValueOf(selectors)))
    /\ (~minify \/ Len(serialize_identifier(ValueOf(selectors)))
                     = Len(Quoted(ValueOf(selectors)))) =>
         WrittenValue = Quoted(ValueOf(selectors))

\* `[data-x="foo bar"]` is written `[data-x=foo\ bar]` with minify.
C26_Witness ==
  /\ op = "to_css" /\ minify
  /\ ValueOf(selectors) = write_str("foo bar")
  /\ AttributeOf(selectors).args[1] = "Equal"
  /\ AttributeOf(selectors).sub = "CaseSensitive"
  /\ css = write_str("[data-x=foo\\ bar]")

----------------------------------------------------------------------------
(* downlevel_selectors called a second time, with the targets of the       *)
(* first call, on the selectors the first call left.                       *)

TwiceLists ==
  PrefixDownlevelLists
    \cup {<<s>> : s \in SelectorsUpTo(DownlevelComponents, MaxCompoundLen)}

InitDownlevelTwice == selectors \in TwiceLists /\ Idle

\* The second call: other keeps the prefixes the first call returned and
\* first_tree the selectors it left.
CallDownlevelSelectorsAgain ==
  /\ op = "downlevel_selectors"
  /\ \E r \in {downlevel_selectors(selectors, targets)} :
       /\ first_tree' = selectors
       /\ other' = <<ret>>
       /\ selectors' = r.selectors
       /\ ret' = r.necessary_prefixes
  /\ op' = "downlevel_selectors_again"
  /\ UNCHANGED <<sink_vars, css_module, warnings, targets, unused_symbols,
                 parent_is_unused, input, css, first_css, minify, vendor_prefix,
                 style_context>>

NextDownlevelTwice == CallDownlevelSelectors \/ CallDownlevelSelectorsAgain

SpecDownlevelTwice == InitDownlevelTwice /\ [][NextDownlevelTwice]_vars

\* C28: a second run of downlevel_selectors with the same targets leaves
\* the selectors as the first run left them and returns the prefixes the
\* first run returned.
C28_DownlevelIdempotent ==
  op = "downlevel_selectors_again" =>
    /\ selectors = first_tree
    /\ ret = other[1]

\* :dir(rtl) was rewritten to :is(:lang(ae), ...) by the first run for
\* targets that need :-webkit-any and :-moz-any, and the second run
\* returned both prefixes again.
C28_Witness ==
  /\ op = "downlevel_selectors_again"
  /\ selectors = <<<<Is(lang_list_to_selectors(RTL_LANGS))>>>>
  /\ first_tree = selectors
  /\ ret = VP_WebKit \cup VP_Moz
  /\ other = <<ret>>

----------------------------------------------------------------------------
(* downlevel_selectors one call of downlevel_component at a time.  other   *)
(* is the stack of the calls still to make, each the path of a component   *)
(* in the selectors and the kind of component whose replacement it is or   *)
(* lies in; ret collects the prefixes.                                     *)

StepLists ==
  {<<s>> : s \in SelectorsUpTo(PrefixDownlevelComponents \cup DownlevelComponents, 1)}
    \cup {<<<<Dir(Ltr)>>, <<Lang(<<en, fr>>)>>>>,
          <<<<Is(<<<<Dir(Rtl)>>, <<Dir(Ltr)>>>>)>>>>,
          <<<<Class(a), Combinator("Child"), Negation(<<<<Dir(Ltr)>>>>)>>>>}

InitDownlevelSteps == selectors \in StepLists /\ Idle

\* The component at a path <<selector, component, selector, component, ..>>
\* and the selectors with another component at that path.
RECURSIVE ComponentAt(_, _)
ComponentAt(sels, path) ==
  IF Len(path) = 2 THEN sels[path[1]][path[2]]
  ELSE ComponentAt(sels[path[1]][path[2]].list, Tail(Tail(path)))

RECURSIVE WithComponentAt(_, _, _)
WithComponentAt(sels, path, component) ==
  IF Len(path) = 2 THEN [sels EXCEPT ![path[1]][path[2]] = component]
  ELSE [sels EXCEPT ![path[1]][path[2]].list =
                      WithComponentAt(@, Tail(Tail(path)), component)]

Call(path, from) == [path |-> path, from |-> from]

\* The calls of the loops of downlevel_selectors over a list at a path, the
\* first component of the first selector on top.
CallsOver(sels, path, from) ==
  Concat([i \in 1..Len(sels) |->
           [j \in 1..Len(sels[i]) |-> Call(path \o <<i, j>>, from)]])

RewritesDir(component, t) ==
  /\ component.kind = "NonTSPseudoClass" /\ component.sub = "Dir"
  /\ ~FeatureIsCompatible("CssDirPseudo", t)

RewritesLang(component, t) ==
  /\ component.kind = "NonTSPseudoClass" /\ component.sub = "Lang"
  /\ Len(component.args) > 1 /\ ~FeatureIsCompatible("LangList", t)

\* The prefixes a call of downlevel_component adds by itself.
OwnPrefixes(component, t) ==
  IF component.kind = "NonTSPseudoClass" /\ component.sub \notin {"Dir", "Lang"}
  THEN PseudoClassGetNecessaryPrefixes(component, t)
  ELSE IF component.kind = "PseudoElement"
  THEN PseudoElementGetNecessaryPrefixes(component, t)
  ELSE IF /\ component.kind = "Is"
          /\ ~FeatureIsCompatible("CssMatchesPseudo", t)
          /\ \A i \in 1..Len(component.list) : ~has_combinator(component.list[i])
  THEN prefixes_for("AnyPseudo", t)
  ELSE VP_empty

\* The entry of downlevel_selectors.
BeginDownlevel ==
  /\ op = "init"
  /\ \E t \in DownlevelTargets : targets' = t
  /\ first_tree' = selectors
  /\ other' = CallsOver(selectors, <<>>, "none")
  /\ ret' = VP_empty
  /\ op' = "downleveling"
  /\ UNCHANGED <<sink_vars, css_module, warnings, selectors, unused_symbols,
                 parent_is_unused, input, css, first_css, minify, vendor_prefix,
                 style_context>>

\* One call of downlevel_component: it replaces a :dir() or a :lang() list
\* and calls itself on the replacement, or it calls downlevel_selectors on
\* the list of :is(), :where(), :-*-any(), :not() or :has(), or it returns
\* prefixes.
DownlevelComponent ==
  /\ op = "downleveling"
  /\ other # <<>>
  /\ LET call == Head(other)
         component == ComponentAt(selectors, call.path)
     IN  IF RewritesDir(component, targets)
         THEN /\ selectors' = WithComponentAt(selectors, call.path,
                                              downlevel_dir(component.name, targets))
              /\ other' = <<Call(call.path, "Dir")>> \o Tail(other)
              /\ ret' = ret
         ELSE IF RewritesLang(component, targets)
         THEN /\ selectors' = WithComponentAt(selectors, call.path,
                                              Is(lang_list_to_selectors(component.args)))
              /\ other' = <<Call(call.path, "Lang")>> \o Tail(other)
              /\ ret' = ret
         ELSE /\ selectors' = selectors
              /\ other' = (IF component.kind \in {"Is", "Where", "Any", "Negation", "Has"}
                           THEN CallsOver(component.list, call.path, call.from)
                           ELSE <<>>)
                            \o Tail(other)
              /\ ret' = ret \cup OwnPrefixes(component, targets)
  /\ UNCHANGED <<sink_vars, css_module, warnings, targets, unused_symbols,
                 parent_is_unused, input, css, first_css, first_tree, minify,
                 vendor_prefix, style_context, op>>

\* The return of downlevel_selectors.
ReturnPrefixes ==
  /\ op = "downleveling"
  /\ other = <<>>
  /\ op' = "returned"
  /\ UNCHANGED <<sink_vars, css_module, warnings, selectors, other, targets,
                 unused_symbols, parent_is_unused, input, css, first_css, first_tree,
                 minify, vendor_prefix, style_context, ret>>

NextDownlevelSteps == BeginDownlevel \/ DownlevelComponent \/ ReturnPrefixes

SpecDownlevelSteps == InitDownlevelSteps /\ [][NextDownlevelSteps]_vars

\* The calls are made one after the other by one thread: a call that can
\* be made is made.
FairDownlevelSteps == SpecDownlevelSteps /\ WF_vars(NextDownlevelSteps)

\* A call on the replacement of a :dir(), or on a component in it, that
\* replaces a :dir() again, and the same for a :lang() list.
RewritesSameKindAgain ==
  /\ op = "downleveling"
  /\ \E k \in 1..Len(other) :
       \/ /\ other[k].from = "Dir"
          /\ RewritesDir(ComponentAt(selectors, other[k].path), targets)
       \/ /\ other[k].from = "Lang"
          /\ RewritesLang(ComponentAt(selectors, other[k].path), targets)

\* C27: downlevel_selectors returns after finitely many calls of
\* downlevel_component, and the call on what was put in the place of a
\* :dir() or of a :lang() of several languages never replaces a component
\* of that kind again.
C27_DownlevelTerminates ==
  /\ <>(op = "returned")
  /\ [](~RewritesSameKindAgain)

\* downlevel_selectors has returned for `:is(:dir(rtl), :dir(ltr))` with
\* targets without :dir() and :lang() lists, after the two replacements
\* were downleveled in their turn.
C27_Witness ==
  /\ op = "returned"
  /\ first_tree = <<<<Is(<<<<Dir(Rtl)>>, <<Dir(Ltr)>>>>)>>>>
  /\ selectors = <<<<Is(<<<<Is(lang_list_to_selectors(RTL_LANGS))>>,
                          <<Negation(lang_list_to_selectors(RTL_LANGS))>>>>)>>>>

====
